---- MODULE Spec2Model ----
(***************************************************************************)
(* A model of the agentrc transpiler core: the IR builder (determineScope, *)
(* sortByPriority, buildIR), the adapter registry and the adapters'        *)
(* generate functions, with the Windsurf character-budget loop modelled    *)
(* one iteration at a time.                                                *)
(*                                                                         *)
(* Text.  A string is modelled as a sequence of pieces [s, n, pad]: s      *)
(* names the piece (a literal, an entity's name, or the identity of a body *)
(* of text), n is its length in characters and pad the number of trailing  *)
(* whitespace characters among them.  Concatenation is \o, the length of   *)
(* a text is the sum of its pieces' lengths, and `t.includes(name)' is     *)
(* "some piece of t is the name".  Entity names are taken to be distinct   *)
(* from each other and not to occur inside literals or bodies.             *)
(***************************************************************************)
EXTENDS Integers, Sequences, FiniteSets, TLC

VARIABLES
    source,     \* the LoadedSource handed to buildIR (loader.ts)
    ir,         \* the IR built from it (NoIR before buildIR ran)
    pc,         \* position of buildCommand: "load", "loop", "windsurf", "generated",
                \* "writing", "written", "done"
    loc,        \* locals of the running windsurfAdapter.generate call
    first,      \* per adapter: the result of its first generate call on ir
    last,       \* the most recent completed generate call
    disk,       \* the project's files outside .agentrc: path -> file
    backups,    \* the copies under .agentrc/.backup/
    gitignore,  \* the content of .gitignore (empty when there is no such file)
    manifest,   \* .agentrc/.manifest.json
    writer,     \* the running writeOutputFiles call
    reported    \* what the run printed with console.error: the caught exceptions

outVars == <<disk, backups, gitignore, manifest, writer>>

vars ==
    <<source, ir, pc, loc, first, last, disk, backups, gitignore, manifest, writer, reported>>

-----------------------------------------------------------------------------
(* Bounds of the model *)

\* longest rule list of a source in the adapter specification
MaxRules == 2
\* longest rule list of a source in the budget specification
MaxBudgetRules == 3
\* longest rule list of a source in the IR-builder specification
MaxSortLen == 3
\* number of distinct adapters invoked on one IR
MaxTargets == 2

-----------------------------------------------------------------------------
(* Text *)

Lit(str) == <<[s |-> str, n |-> Len(str), pad |-> 0]>>

\* A body of text: content is [id, len, pad], len characters followed by pad
\* characters of trailing whitespace.
Body(c) == <<[s |-> c.id, n |-> c.len + c.pad, pad |-> c.pad]>>

\* String.prototype.trim on a body
Trim(c) == [c EXCEPT !.pad = 0]

\* string.length
RECURSIVE TextLen(_)
TextLen(t) == IF t = <<>> THEN 0 ELSE Head(t).n + TextLen(Tail(t))

\* string.includes(name)
Includes(t, name) == \E i \in DOMAIN t : t[i].s = name

\* Array.prototype.join
RECURSIVE Join(_, _)
Join(parts, sep) ==
    IF parts = <<>> THEN <<>>
    ELSE IF Len(parts) = 1 THEN parts[1]
    ELSE parts[1] \o Lit(sep) \o Join(Tail(parts), sep)

RECURSIVE Concat(_)
Concat(seqs) == IF seqs = <<>> THEN <<>> ELSE Head(seqs) \o Concat(Tail(seqs))

Whitespace == {"", " ", "\n", "\n\n"}

RECURSIVE TrimStart(_)
TrimStart(t) ==
    IF t = <<>> THEN <<>>
    ELSE IF Head(t).s \in Whitespace THEN TrimStart(Tail(t))
    ELSE t

RECURSIVE TrimEnd(_)
TrimEnd(t) ==
    IF t = <<>> THEN <<>>
    ELSE LET e == t[Len(t)]
             front == SubSeq(t, 1, Len(t) - 1)
         IN  IF e.s \in Whitespace THEN TrimEnd(front)
             ELSE front \o <<[e EXCEPT !.n = e.n - e.pad, !.pad = 0]>>

\* String.prototype.trim on a composed text
TrimText(t) == TrimStart(TrimEnd(t))

-----------------------------------------------------------------------------
(* Optional fields *)

AbsentFlag == [has |-> FALSE, v |-> FALSE]
AbsentStr  == [has |-> FALSE, v |-> ""]
AbsentSeq  == [has |-> FALSE, v |-> <<>>]
Some(x)    == [has |-> TRUE, v |-> x]

-----------------------------------------------------------------------------
(* IR builder *)

Priorities == {"critical", "high", "normal", "low"}
Scopes == {"always", "glob", "description", "manual"}

priorityOrder(p) ==
    CASE p = "critical" -> 0
      [] p = "high"     -> 1
      [] p = "normal"   -> 2
      [] p = "low"      -> 3

\* The comparator of sortByPriority: negative, zero or positive.
ComparePriority(a, b) == priorityOrder(a.priority) - priorityOrder(b.priority)

\* Where a stable sort puts x into an already sorted list: before the first
\* element that must come strictly after x.
RECURSIVE InsertSorted(_, _)
InsertSorted(x, sorted) ==
    IF sorted = <<>> THEN <<x>>
    ELSE IF ComparePriority(Head(sorted), x) > 0 THEN <<x>> \o sorted
    ELSE <<Head(sorted)>> \o InsertSorted(x, Tail(sorted))

\* An unstable placement: x goes before its equals.
RECURSIVE InsertBeforeEquals(_, _)
InsertBeforeEquals(x, sorted) ==
    IF sorted = <<>> THEN <<x>>
    ELSE IF ComparePriority(Head(sorted), x) >= 0 THEN <<x>> \o sorted
    ELSE <<Head(sorted)>> \o InsertBeforeEquals(x, Tail(sorted))

\* [...rules].sort(cmp): Array.prototype.sort is stable; the copy leaves the
\* argument as it was.
RECURSIVE SortFrom(_, _)
SortFrom(rules, acc) ==
    IF rules = <<>> THEN acc
    ELSE SortFrom(Tail(rules), InsertSorted(Head(rules), acc))

RECURSIVE UnstableSortFrom(_, _)
UnstableSortFrom(rules, acc) ==
    IF rules = <<>> THEN acc
    ELSE UnstableSortFrom(Tail(rules), InsertBeforeEquals(Head(rules), acc))

sortByPriorityUnstable(rules) == UnstableSortFrom(rules, <<>>)

\* one pass of adjacent swaps instead of a full sort
RECURSIVE OnePass(_)
OnePass(rules) ==
    IF Len(rules) < 2 THEN rules
    ELSE IF ComparePriority(rules[1], rules[2]) > 0
    THEN << rules[2] >> \o OnePass(<< rules[1] >> \o Tail(Tail(rules)))
    ELSE << rules[1] >> \o OnePass(Tail(rules))

sortByPriority(rules) == SortFrom(rules, <<>>)

\* The earlier revision of determineScope: no manual flag, default manual.
determineScopeOld(fm) ==
    IF fm.alwaysApply.has /\ fm.alwaysApply.v THEN "always"
    ELSE IF fm.globs.has /\ Len(fm.globs.v) > 0 THEN "glob"
    ELSE IF fm.description.has /\ fm.description.v # "" THEN "description"
    ELSE "manual"

determineScope(fm) ==
    IF fm.alwaysApply.has /\ fm.alwaysApply.v = TRUE THEN "always"
    ELSE IF fm.manual.has /\ fm.manual.v = TRUE THEN "manual"
    ELSE IF fm.globs.has /\ Len(fm.globs.v) > 0 THEN "glob"
    ELSE IF fm.description.has /\ fm.description.v # "" THEN "description"
    ELSE IF fm.alwaysApply.has /\ fm.alwaysApply.v = FALSE THEN "manual"
    ELSE "always"

\* One loaded rule {name, parsed: {frontmatter, content}, sourcePath} to an IR Rule.
ToRule(r) ==
    [ name        |-> r.name,
      scope       |-> determineScope(r.fm),
      content     |-> r.content,
      priority    |-> IF r.fm.priority.has THEN r.fm.priority.v ELSE "normal",
      sourcePath  |-> r.sourcePath,
      globs       |-> IF r.fm.globs.has /\ Len(r.fm.globs.v) > 0
                      THEN r.fm.globs ELSE AbsentSeq,
      description |-> r.fm.description,
      alwaysApply |-> r.fm.alwaysApply,
      manual      |-> r.fm.manual ]

ToCommand(c) ==
    [ name        |-> c.name,
      description |-> IF c.fm.description.has THEN c.fm.description.v ELSE "",
      content     |-> c.content,
      aliases     |-> c.fm.aliases,
      sourcePath  |-> c.sourcePath ]

ToSkill(s) ==
    [ name        |-> s.name,
      description |-> s.description,
      content     |-> s.content,
      files       |-> s.files,
      sourcePath  |-> s.sourcePath ]

ToAgent(a) ==
    [ name        |-> a.name,
      description |-> IF a.fm.description.has THEN a.fm.description.v ELSE "",
      content     |-> a.content,
      sourcePath  |-> a.sourcePath,
      model       |-> a.fm.model,
      tools       |-> a.fm.tools ]

buildIR(src) ==
    [ rules    |-> sortByPriority([i \in DOMAIN src.rules |-> ToRule(src.rules[i])]),
      hooks    |-> src.config.hooks,
      commands |-> [i \in DOMAIN src.commands |-> ToCommand(src.commands[i])],
      skills   |-> [i \in DOMAIN src.skills |-> ToSkill(src.skills[i])],
      agents   |-> [i \in DOMAIN src.agents |-> ToAgent(src.agents[i])],
      targets  |-> src.config.targets ]

-----------------------------------------------------------------------------
(* Inputs of the IR builder *)

NoIR == [ rules |-> <<>>, hooks |-> <<>>, commands |-> <<>>, skills |-> <<>>,
          agents |-> <<>>, targets |-> <<"(no IR built)">> ]

NoResult == [ files |-> <<>>, warnings |-> <<>>, nativeFeatures |-> <<>>,
              degradedFeatures |-> <<"(no result)">> ]

NoCall == [ target |-> "(none)", result |-> NoResult, after |-> {},
            repeated |-> FALSE, before |-> NoResult ]

IdleLocals == [ i |-> 0, totalChars |-> 0, files |-> <<>>, warnings |-> <<>> ]

\* loadMarkdownFiles: basename(file, '.md'), and the path it was read from
RuleName(i) == "r" \o ToString(i)
SourcePathOf(dir, name) == ".agentrc/" \o dir \o "/" \o name \o ".md"

\* parseFrontmatter returns content.trim(): no surrounding whitespace is left
Content(id, len) == [id |-> id, len |-> len, pad |-> 0]

LoadedRule(name, fm, len) ==
    [ name |-> name, fm |-> fm, content |-> Content("body of rule " \o name, len),
      sourcePath |-> SourcePathOf("rules", name) ]

FlagValues == {AbsentFlag, Some(TRUE), Some(FALSE)}
GlobValues == {AbsentSeq, Some(<<>>), Some(<<"src/**/*.ts">>)}
DescriptionValues == {AbsentStr, Some(""), Some("when editing migrations")}
PriorityValues == {AbsentStr} \cup {Some(p) : p \in Priorities}

Frontmatters ==
    [ alwaysApply : FlagValues, manual : FlagValues, globs : GlobValues,
      description : DescriptionValues, priority : PriorityValues ]

PlainFrontmatter(p) ==
    [ alwaysApply |-> AbsentFlag, manual |-> AbsentFlag, globs |-> AbsentSeq,
      description |-> AbsentStr, priority |-> Some(p) ]

SourceOf(rules, hooks, commands, skills, agents) ==
    [ config |-> [version |-> "1", targets |-> <<>>, hooks |-> hooks],
      rules |-> rules, commands |-> commands, skills |-> skills, agents |-> agents ]

\* one rule, every combination of the frontmatter fields
ScopeSources ==
    { SourceOf(<<LoadedRule(RuleName(1), fm, 40)>>, <<>>, <<>>, <<>>, <<>>) :
        fm \in Frontmatters }

\* up to MaxSortLen rules in file-name order (loadMarkdownFiles sorts the
\* directory listing), every assignment of priorities
SortSources ==
    UNION { { SourceOf([i \in 1..k |-> LoadedRule(RuleName(i), PlainFrontmatter(ps[i]), 40)],
                       <<>>, <<>>, <<>>, <<>>) :
                ps \in [1..k -> Priorities] } : k \in 0..MaxSortLen }

-----------------------------------------------------------------------------
(* buildCommand, up to the IR *)

BuildIR ==
    /\ pc = "load"
    /\ ir' = buildIR(source)
    /\ pc' = "loop"
    /\ UNCHANGED <<source, reported, loc, first, last>>
    /\ UNCHANGED outVars

\* the state of a writer that has not been called
IdleWriter ==
    [ state |-> "idle", files |-> << >>, owner |-> << >>, i |-> 0, written |-> << >>,
      backed_up |-> << >>, warnings |-> << >>, errors |-> << >>, run |-> 0 ]

NoManifest == [ exists |-> FALSE, version |-> "", files |-> << >> ]

\* no .gitignore, which reads as the empty content
NoBlock == << >>

\* a project in which nothing has been generated yet
NoOutput ==
    /\ disk = << >>
    /\ backups = {}
    /\ gitignore = NoBlock
    /\ manifest = NoManifest
    /\ writer = IdleWriter

InitProgram(sources) ==
    /\ source \in sources
    /\ ir = NoIR
    /\ pc = "load"
    /\ loc = IdleLocals
    /\ first = << >>
    /\ last = NoCall
    /\ reported = << >>

InitWith(sources) == InitProgram(sources) /\ NoOutput

InitIR == InitWith(ScopeSources \cup SortSources)

NextIR == BuildIR

SpecIR == InitIR /\ [][NextIR]_vars

-----------------------------------------------------------------------------
(* Rendering helpers shared by the adapters *)

File(path, content) == [path |-> path, content |-> content]

RECURSIVE LitEach(_)
LitEach(strs) == IF strs = <<>> THEN <<>> ELSE <<Lit(Head(strs))>> \o LitEach(Tail(strs))

\* rule.globs.map((g) => `  - "${g}"`).join('\n')
GlobsYaml(globs) ==
    Join([i \in DOMAIN globs |-> Lit("  - \"") \o Lit(globs[i]) \o Lit("\"")], "\n")

\* inlineSkillContent(skill): the skill's body followed by the content of
\* each of its supporting files
InlineSkillContent(skill) ==
    Body(skill.content)
        \o Concat([i \in DOMAIN skill.files |->
                      Lit("\n\n") \o Lit(skill.files[i].path) \o Lit("\n\n")
                          \o Body(skill.files[i].content)])

\* the lines an adapter pushes for its degraded skills
RECURSIVE SkillConventionLines(_)
SkillConventionLines(skills) ==
    IF skills = <<>> THEN <<>>
    ELSE LET skill == Head(skills)
         IN  << Lit("### ") \o Lit(skill.name), Lit("") >>
                 \o (IF skill.description # ""
                     THEN << Lit(skill.description), Lit("") >> ELSE << >>)
                 \o << InlineSkillContent(skill), Lit("") >>
                 \o SkillConventionLines(Tail(skills))

\* the grave accent of the templates, which a string of this module cannot hold
BackQuote == "^"

\* a string given character by character, as text
CharsText(chars) == [i \in DOMAIN chars |-> [s |-> chars[i], n |-> 1, pad |-> 0]]

\* a string given as tokens, as text
TokensText(tokens) == Concat(LitEach(tokens))

\* rule.globs?.join(sep) ?? ''
GlobList(rule, sep) ==
    IF rule.globs.has THEN Join(LitEach(rule.globs.v), sep) ELSE << >>

\* `### ${rule.name}\n\n${rule.content}`
renderPlainRule(rule) ==
    Lit("### ") \o Lit(rule.name) \o Lit("\n\n") \o Body(rule.content)

renderGlobRule(rule) ==
    Lit("### ") \o Lit(rule.name) \o Lit("\n\nWhen working on files matching ") \o Lit(BackQuote)
        \o GlobList(rule, ", ") \o Lit(BackQuote) \o Lit(":\n\n") \o Body(rule.content)

\* a heading made of the description alone
renderDescriptionRuleUnnamed(rule) ==
    Lit("### ")
        \o (IF rule.description.has /\ rule.description.v # ""
            THEN Lit("(") \o Lit(rule.description.v) \o Lit(")") ELSE << >>)
        \o Lit("\n\n") \o Body(rule.content)

renderDescriptionRule(rule) ==
    Lit("### ") \o Lit(rule.name)
        \o (IF rule.description.has /\ rule.description.v # ""
            THEN Lit(" (") \o Lit(rule.description.v) \o Lit(")") ELSE << >>)
        \o Lit("\n\n") \o Body(rule.content)

HookDescribed(hook) == hook.description.has /\ hook.description.v # ""

HookMatched(hook) == hook.match.has /\ hook.match.v # << >>

\* the lines pushed for one hook under a heading of the given level
HookLines(hook, heading) ==
    << Lit(heading) \o Lit(hook.event)
           \o (IF HookMatched(hook)
               THEN Lit(" on files matching ") \o Lit(BackQuote) \o CharsText(hook.match.v) \o Lit(BackQuote)
               ELSE << >>),
       Lit(""),
       IF HookDescribed(hook) THEN Lit(hook.description.v)
       ELSE Lit("Run: ") \o Lit(BackQuote) \o TokensText(hook.run) \o Lit(BackQuote) >>
        \o (IF HookDescribed(hook) /\ hook.run # << >>
            THEN << Lit(""), Lit("Command: ") \o Lit(BackQuote) \o TokensText(hook.run) \o Lit(BackQuote) >>
            ELSE << >>)
        \o << Lit("") >>

RECURSIVE AllHookLines(_, _)
AllHookLines(hooks, heading) ==
    IF hooks = << >> THEN << >>
    ELSE HookLines(Head(hooks), heading) \o AllHookLines(Tail(hooks), heading)

renderHooksSection(hooks) ==
    IF Len(hooks) = 0 THEN << >>
    ELSE Join(<< Lit("## Hooks"), Lit("") >> \o AllHookLines(hooks, "### "), "\n")

RECURSIVE SkillSectionLines(_)
SkillSectionLines(skills) ==
    IF skills = << >> THEN << >>
    ELSE LET skill == Head(skills)
         IN  << Lit("### ") \o Lit(skill.name), Lit("") >>
                 \o (IF skill.description # ""
                     THEN << Lit(skill.description), Lit("") >> ELSE << >>)
                 \o << Body(skill.content), Lit("") >>
                 \o SkillSectionLines(Tail(skills))

renderSkillsSection(skills) ==
    IF Len(skills) = 0 THEN << >>
    ELSE Join(<< Lit("## Skills"), Lit("") >> \o SkillSectionLines(skills), "\n")

\* the files pushSkillFiles(files, skill, prefix) pushes
pushSkillFiles(skill, prefix) ==
    << File(Lit(prefix) \o Lit("/skills/") \o Lit(skill.name) \o Lit("/SKILL.md"),
            Body(Trim(skill.content)) \o Lit("\n")) >>
        \o [i \in DOMAIN skill.files |->
               File(Lit(prefix) \o Lit("/skills/") \o Lit(skill.name) \o Lit("/")
                        \o Lit(skill.files[i].path),
                    Body(skill.files[i].content))]

RECURSIVE AllSkillFiles(_, _)
AllSkillFiles(skills, prefix) ==
    IF skills = << >> THEN << >>
    ELSE pushSkillFiles(Head(skills), prefix) \o AllSkillFiles(Tail(skills), prefix)

\* rules.filter((r) => scopes.includes(r.scope)).map(render), one of the three
\* renderings picked by kind
RECURSIVE RuleSections(_, _, _)
RuleSections(rules, scopes, kind) ==
    IF rules = << >> THEN << >>
    ELSE LET rule == Head(rules)
             rest == RuleSections(Tail(rules), scopes, kind)
         IN  IF rule.scope \in scopes
             THEN << CASE kind = "plain" -> renderPlainRule(rule)
                       [] kind = "glob" -> renderGlobRule(rule)
                       [] kind = "description" -> renderDescriptionRule(rule) >> \o rest
             ELSE rest

HasScope(rules, scope) == \E i \in DOMAIN rules : rules[i].scope = scope

\* `${sections.join('\n\n').trim()}\n`
SectionsContent(sections) == TrimText(Join(sections, "\n\n")) \o Lit("\n")

Result(files, warnings, nativeFeatures, degradedFeatures) ==
    [ files |-> files, warnings |-> warnings, nativeFeatures |-> nativeFeatures,
      degradedFeatures |-> degradedFeatures ]

\* the strings pushed onto a feature list, each under its condition
RECURSIVE Pushed(_)
Pushed(tagged) ==
    IF tagged = << >> THEN << >>
    ELSE (IF Head(tagged)[1] THEN << Head(tagged)[2] >> ELSE << >>) \o Pushed(Tail(tagged))

-----------------------------------------------------------------------------
(* The hook compiler of the Claude adapter.  A glob is a sequence of          *)
(* characters; a command is a sequence of tokens in which the placeholder     *)
(* {file}, a leading hooks/, a double quote and a backslash are tokens of     *)
(* their own.                                                                 *)

\* .replace(/\./g, '\\.')
RECURSIVE EscapeDots(_)
EscapeDots(cs) ==
    IF cs = << >> THEN << >>
    ELSE (IF Head(cs) = "." THEN << "\\", "." >> ELSE << Head(cs) >>) \o EscapeDots(Tail(cs))

\* group.replace(/,/g, '|')
CommasToBars(cs) == [i \in DOMAIN cs |-> IF cs[i] = "," THEN "|" ELSE cs[i]]

\* .replace(/\{([^}]+)\}/g, ...)
RECURSIVE ExpandBraces(_)
ExpandBraces(cs) ==
    IF cs = << >> THEN << >>
    ELSE LET closing == {j \in 2 .. Len(cs) : cs[j] = "}"}
             j == CHOOSE k \in closing : \A m \in closing : k <= m
         IN  IF Head(cs) = "{" /\ closing # {} /\ j > 2
             THEN << "(" >> \o CommasToBars(SubSeq(cs, 2, j - 1)) \o << ")" >>
                      \o ExpandBraces(SubSeq(cs, j + 1, Len(cs)))
             ELSE << Head(cs) >> \o ExpandBraces(Tail(cs))

\* .replace(/\*\*/g, '.*')
RECURSIVE DoubleStars(_)
DoubleStars(cs) ==
    IF cs = << >> THEN << >>
    ELSE IF Len(cs) >= 2 /\ cs[1] = "*" /\ cs[2] = "*"
    THEN << ".", "*" >> \o DoubleStars(SubSeq(cs, 3, Len(cs)))
    ELSE << Head(cs) >> \o DoubleStars(Tail(cs))

\* .replace(/(?<!\.)(\*)(?!\*)/g, '[^/]*')
SingleStars(cs) ==
    Concat([i \in DOMAIN cs |->
               IF /\ cs[i] = "*"
                  /\ (i = 1 \/ cs[i - 1] # ".")
                  /\ (i = Len(cs) \/ cs[i + 1] # "*")
               THEN << "[", "^", "/", "]", "*" >>
               ELSE << cs[i] >>])

\* .replace(/\?/g, '.')
QuestionMarks(cs) == [i \in DOMAIN cs |-> IF cs[i] = "?" THEN "." ELSE cs[i]]

globToRegex(glob) ==
    QuestionMarks(SingleStars(DoubleStars(ExpandBraces(EscapeDots(glob)))))

HookEvents == {"post-edit", "post-create", "pre-commit"}

\* every event under PostToolUse with the matcher of post-edit
mapHookEventAsEdit(event) ==
    IF event = "pre-commit" THEN [event |-> "Notification", matcher |-> "Stop"]
    ELSE [event |-> "PostToolUse", matcher |-> "Edit|Write|MultiEdit"]

mapHookEvent(event) ==
    CASE event = "post-edit" -> [event |-> "PostToolUse", matcher |-> "Edit|Write|MultiEdit"]
      [] event = "post-create" -> [event |-> "PostToolUse", matcher |-> "Write"]
      [] event = "pre-commit" -> [event |-> "Notification", matcher |-> "Stop"]

\* run.startsWith('hooks/') ? `.agentrc/${run}` : run
ResolveRun(run) ==
    IF run # << >> /\ Head(run) = "hooks/" THEN << ".agentrc/" >> \o run ELSE run

hasFilePlaceholder(run) == \E i \in DOMAIN run : run[i] = "{file}"

\* only the first {file} replaced, as replace does without the g flag
SubstituteFirstFile(run) ==
    [i \in DOMAIN run |->
        IF run[i] = "{file}" /\ \A j \in 1..(i - 1) : run[j] # "{file}"
        THEN "$1" ELSE run[i]]

\* run.replace(/\{file\}/g, '$1')
SubstituteFile(run) ==
    [i \in DOMAIN run |-> IF run[i] = "{file}" THEN "$1" ELSE run[i]]

\* a match that is merely defined
hasDefinedMatch(hook) == hook.match.has

hasMatchGlob(hook) == hook.match.has /\ hook.match.v # << >>

\* `echo "$1" | grep -qE "${regex}" && ${innerCmd}`
Guarded(glob, innerCmd) ==
    << "echo ", "\"", "$1", "\"", " | grep -qE ", "\"" >> \o globToRegex(glob)
        \o << "\"", " && " >> \o innerCmd

\* `jq -r '.tool_input.file_path' | xargs -I {} sh -c '${innerCmd}' _ {}`
Pipeline(innerCmd) ==
    << "jq -r '.tool_input.file_path' | xargs -I {} sh -c '" >> \o innerCmd \o << "' _ {}" >>

buildHookCommand(hook) ==
    LET run == ResolveRun(hook.run)
    IN  IF hasFilePlaceholder(run)
        THEN Pipeline(IF hasMatchGlob(hook)
                      THEN Guarded(hook.match.v, SubstituteFile(run))
                      ELSE SubstituteFile(run))
        ELSE IF hasMatchGlob(hook)
        THEN Pipeline(Guarded(hook.match.v, run))
        ELSE run

\* JSON.stringify of a string: quoted, with double quotes and backslashes escaped
JsonString(tokens) ==
    Lit("\"")
        \o Concat([i \in DOMAIN tokens |->
                      Lit(CASE tokens[i] = "\"" -> "\\\""
                            [] tokens[i] = "\\" -> "\\\\"
                            [] OTHER -> tokens[i])])
        \o Lit("\"")

\* settingsHooks: the mapped events in the order they first occur, each with
\* the { matcher, command } entries of its hooks
RECURSIVE EventsInOrder(_, _)
EventsInOrder(hooks, seen) ==
    IF hooks = << >> THEN << >>
    ELSE LET event == mapHookEvent(Head(hooks).event).event
         IN  IF event \in seen THEN EventsInOrder(Tail(hooks), seen)
             ELSE << event >> \o EventsInOrder(Tail(hooks), seen \cup {event})

RECURSIVE EntriesOf(_, _)
EntriesOf(hooks, event) ==
    IF hooks = << >> THEN << >>
    ELSE (IF mapHookEvent(Head(hooks).event).event = event
          THEN << [ matcher |-> mapHookEvent(Head(hooks).event).matcher,
                    command |-> buildHookCommand(Head(hooks)) ] >>
          ELSE << >>) \o EntriesOf(Tail(hooks), event)

SettingsEntry(entry) ==
    Lit("      {\n        \"matcher\": ") \o JsonString(<< entry.matcher >>)
        \o Lit(",\n        \"hooks\": [\n          {\n            \"type\": \"command\",\n            \"command\": ")
        \o JsonString(entry.command)
        \o Lit("\n          }\n        ]\n      }")

SettingsEvent(hooks, event) ==
    Lit("    ") \o JsonString(<< event >>) \o Lit(": [\n")
        \o Join([i \in DOMAIN EntriesOf(hooks, event) |->
                    SettingsEntry(EntriesOf(hooks, event)[i])], ",\n")
        \o Lit("\n    ]")

\* `${JSON.stringify({ hooks: hooksConfig }, null, 2)}\n`
SettingsContent(hooks) ==
    Lit("{\n  \"hooks\": {\n")
        \o Join([i \in DOMAIN EventsInOrder(hooks, {}) |->
                    SettingsEvent(hooks, EventsInOrder(hooks, {})[i])], ",\n")
        \o Lit("\n  }\n}") \o Lit("\n")

-----------------------------------------------------------------------------
(* What buildCommand records of each generate call *)

Adapters ==
    { "claude", "cursor", "copilot", "windsurf", "cline", "gemini", "codex",
      "generic-markdown", "aider", "junie", "amazonq", "amp", "roo" }

(* The registry of adapters *)

\* Object.keys(adapters): the keys of the object literal, in its order
RegisteredNames ==
    << "claude", "cursor", "copilot", "windsurf", "cline", "gemini", "codex",
       "generic-markdown", "aider", "junie", "amazonq", "amp", "roo" >>

\* an adapter: its name property and what made its generate
Adapter(name, made) == [ kind |-> "adapter", name |-> name, generate |-> made ]

\* const adapters: Record<string, Adapter> = { ... }: the own properties
adapters ==
    [ claude |-> Adapter("claude", "claudeAdapter"),
      cursor |-> Adapter("cursor", "cursorAdapter"),
      copilot |-> Adapter("copilot", "copilotAdapter"),
      windsurf |-> Adapter("windsurf", "windsurfAdapter"),
      cline |-> Adapter("cline", "clineAdapter"),
      gemini |-> Adapter("gemini", "geminiAdapter"),
      codex |-> Adapter("codex", "codexAdapter"),
      aider |-> Adapter("aider", "createGenericAdapter CONVENTIONS.md"),
      junie |-> Adapter("junie", "createGenericAdapter .junie/guidelines.md"),
      amazonq |-> Adapter("amazonq", "createGenericAdapter .amazonq/rules/agentrc.md"),
      amp |-> Adapter("amp", "createGenericAdapter AGENTS.md"),
      roo |-> Adapter("roo", "createGenericAdapter AGENTS.md") ]
    @@ ("generic-markdown" :> Adapter("generic-markdown", "createGenericAdapter AGENTS.md"))

\* the properties an object literal inherits from Object.prototype
ObjectPrototypeKeys ==
    { "constructor", "toString", "toLocaleString", "valueOf", "hasOwnProperty",
      "isPrototypeOf", "propertyIsEnumerable", "__proto__" }

Undefined == [ kind |-> "undefined" ]

\* adapters[name]: the own property; failing that the inherited one, which is
\* a function or an object; failing that undefined
PropertyOf(name) ==
    IF name \in DOMAIN adapters THEN adapters[name]
    ELSE IF name \in ObjectPrototypeKeys THEN [ kind |-> "inherited", member |-> name ]
    ELSE Undefined

\* Object.keys(adapters).join(', ')
RECURSIVE JoinNames(_)
JoinNames(names) ==
    IF names = << >> THEN << >>
    ELSE IF Len(names) = 1 THEN << names[1] >>
    ELSE << names[1], ", " >> \o JoinNames(Tail(names))

\* `Unknown adapter "${name}". Available adapters: ${available}`
UnknownAdapterMessage(name) ==
    << "Unknown adapter \"", name, "\". Available adapters: " >> \o JoinNames(RegisteredNames)

\* getAdapter: what it returns, or the message of the Error it throws when
\* the looked up value is falsy
getAdapter(name) ==
    LET adapter == PropertyOf(name)
    IN  IF adapter = Undefined
        THEN [ threw |-> TRUE, message |-> UnknownAdapterMessage(name), value |-> Undefined ]
        ELSE [ threw |-> FALSE, message |-> << >>, value |-> adapter ]

Called == DOMAIN first

MayCall(a) == a \in Called \/ Cardinality(Called) < MaxTargets

\* result = adapter.generate(ir), as the loop of buildCommand receives it
Complete(a, res) ==
    /\ first' = IF a \in Called THEN first
                ELSE (a :> [result |-> res, after |-> Called]) @@ first
    /\ last' = [ target |-> a, result |-> res, after |-> Called \ {a},
                 repeated |-> last.target = a,
                 before |-> IF last.target = a THEN last.result ELSE NoResult ]

\* const files: OutputFile[] = []
LeftoverFiles == last.result.files

NewFiles == << >>

-----------------------------------------------------------------------------
(* The Windsurf adapter and its budget allocator *)

TOTAL_CHAR_LIMIT == 12000

\* a per-file limit as loose as the total limit
LooserRuleCharLimit == TOTAL_CHAR_LIMIT + 0

RULE_CHAR_LIMIT == 6000

PerFileWarning(rule, charCount) ==
    [ kind |-> "exceeding per-file limit", rule |-> rule.name, priority |-> "",
      chars |-> charCount, current |-> 0 ]

DropWarning(rule, totalChars) ==
    [ kind |-> "Dropping rule", rule |-> rule.name, priority |-> rule.priority,
      chars |-> 0, current |-> totalChars ]

ConventionsWarning ==
    [ kind |-> "Conventions file would exceed total limit", rule |-> "",
      priority |-> "", chars |-> 0, current |-> 0 ]

WindsurfFrontmatter(rule) ==
    IF rule.scope = "glob" /\ rule.globs.has /\ Len(rule.globs.v) > 0
    THEN Lit("---\ntrigger: glob\nglobs:\n") \o GlobsYaml(rule.globs.v) \o Lit("\n---")
    ELSE IF rule.scope = "description" /\ rule.description.has /\ rule.description.v # ""
    THEN Lit("---\ntrigger: model\ndescription: \"") \o Lit(rule.description.v)
             \o Lit("\"\n---")
    ELSE Lit("---\ntrigger: always_on\n---")

\* `${frontmatter}\n\n${rule.content.trim()}\n`
WindsurfBlock(rule) ==
    WindsurfFrontmatter(rule) \o Lit("\n\n") \o Body(Trim(rule.content)) \o Lit("\n")

WindsurfRulePath(rule) == Lit(".windsurf/rules/") \o Lit(rule.name) \o Lit(".md")

WindsurfConventionsPath == Lit(".windsurf/rules/agentrc-conventions.md")

\* warnings that are not reset between calls
StaleWarnings == loc.warnings

\* const warnings: string[] = []
NewWarnings == << >>

\* let totalChars = 0
InitialTotalChars == 0

WindsurfBegin ==
    /\ pc = "loop"
    /\ MayCall("windsurf")
    /\ pc' = "windsurf"
    /\ loc' = [ i |-> 1, totalChars |-> InitialTotalChars, files |-> NewFiles,
                warnings |-> NewWarnings ]
    /\ UNCHANGED <<source, reported, ir, first, last>>
    /\ UNCHANGED outVars

\* a total check that compares with >= instead of >
OverTotalAtLimit(totalChars, charCount) == totalChars + charCount >= TOTAL_CHAR_LIMIT

\* a total check that looks at the running total only
OverTotalBefore(totalChars, charCount) == totalChars > TOTAL_CHAR_LIMIT

\* totalChars + charCount > TOTAL_CHAR_LIMIT
OverTotal(totalChars, charCount) == totalChars + charCount > TOTAL_CHAR_LIMIT

\* one iteration of `for (const rule of ir.rules)'
WindsurfRule ==
    /\ pc = "windsurf"
    /\ loc.i <= Len(ir.rules)
    /\ LET rule == ir.rules[loc.i]
           content == WindsurfBlock(rule)
           charCount == TextLen(content)
           warned == IF charCount > RULE_CHAR_LIMIT
                     THEN Append(loc.warnings, PerFileWarning(rule, charCount))
                     ELSE loc.warnings
       IN  IF OverTotal(loc.totalChars, charCount)
           THEN loc' = [loc EXCEPT !.i = @ + 1,
                                   !.warnings = Append(warned, DropWarning(rule, loc.totalChars))]
           ELSE loc' = [loc EXCEPT !.i = @ + 1,
                                   !.warnings = warned,
                                   !.totalChars = @ + charCount,
                                   !.files = Append(@, File(WindsurfRulePath(rule), content))]
    /\ UNCHANGED <<source, reported, ir, pc, first, last>>
    /\ UNCHANGED outVars

\* `---\ntrigger: always_on\n---\n\n${conventionSections.join('\n').trim()}\n`
WindsurfConventions(skills) ==
    Lit("---\ntrigger: always_on\n---\n\n")
        \o TrimText(Join(<< Lit("## Skills"), Lit("") >> \o SkillConventionLines(skills), "\n"))
        \o Lit("\n")

\* a conventions file that is left out when it does not fit
ConventionsFilesIfFits(totalChars, skills) ==
    IF Len(skills) > 0
          /\ totalChars + TextLen(WindsurfConventions(skills)) <= TOTAL_CHAR_LIMIT
    THEN << File(WindsurfConventionsPath, WindsurfConventions(skills)) >>
    ELSE << >>

\* files.push({ path: '.windsurf/rules/agentrc-conventions.md', ... }), whatever
\* the running total is
WindsurfConventionsFiles(totalChars, skills) ==
    IF Len(skills) > 0
    THEN << File(WindsurfConventionsPath, WindsurfConventions(skills)) >>
    ELSE << >>

\* the rest of generate, after the loop: feature tags, the conventions file, return
WindsurfEnd ==
    /\ pc = "windsurf"
    /\ loc.i > Len(ir.rules)
    /\ LET hasDesc == \E i \in DOMAIN ir.rules : ir.rules[i].scope = "description"
           nativeFeatures == << "instructions", "scoped-rules" >>
                                 \o (IF hasDesc THEN << "description-triggered-rules" >>
                                     ELSE << >>)
           hasSections == Len(ir.skills) > 0
           degradedFeatures == IF hasSections
                               THEN << "skills (folded into conventions file)" >>
                               ELSE << >>
           convContent == WindsurfConventions(ir.skills)
           convCharCount == TextLen(convContent)
           warnings == IF hasSections /\ OverTotal(loc.totalChars, convCharCount)
                       THEN Append(loc.warnings, ConventionsWarning)
                       ELSE loc.warnings
           files == loc.files \o WindsurfConventionsFiles(loc.totalChars, ir.skills)
       IN  Complete("windsurf",
                    [ files |-> files, warnings |-> warnings,
                      nativeFeatures |-> nativeFeatures,
                      degradedFeatures |-> degradedFeatures ])
    /\ pc' = "loop"
    /\ loc' = [loc EXCEPT !.i = 0]
    /\ UNCHANGED <<source, reported, ir>>
    /\ UNCHANGED outVars

\* the list of targets is exhausted
LoopEnd ==
    /\ pc = "loop"
    /\ pc' = "generated"
    /\ UNCHANGED <<source, reported, ir, loc, first, last>>
    /\ UNCHANGED outVars

-----------------------------------------------------------------------------
(* The adapters that generate in one go *)

\* const result = adapter.generate(ir) for an adapter without a loop of interest
Invoke(a, res) ==
    /\ pc = "loop"
    /\ MayCall(a)
    /\ Complete(a, res)
    /\ UNCHANGED <<source, reported, ir, pc, loc>>
    /\ UNCHANGED outVars

\* how many caught exceptions one run is followed through
MaxReported == 1

\* `throw err` out of the catch block would end the run here
RethrowFromCatch == "done"

\* the catch block only prints: the for loop goes on with the next target
AfterCatch == "loop"

\* catch (err) { console.error(`Failed to generate for ${target}: ${err.message}`) }:
\* nothing of the target reaches allFiles
Caught(target, message) ==
    /\ pc = "loop"
    /\ Len(reported) < MaxReported
    /\ reported' = Append(reported, [ target |-> target, message |-> message,
                                      after |-> Called ])
    /\ pc' = AfterCatch
    /\ UNCHANGED <<source, ir, loc, first, last>>
    /\ UNCHANGED outVars

\* names a target list can hold that are no key of the registry
UnregisteredNames == { "nonexistent-adapter", "constructor" }

\* TypeError of calling the generate property of a value that has none
NotAFunction == << "adapter.generate is not a function" >>

\* const adapter = getAdapter(target); adapter.generate(ir), for a target that
\* is no key of the registry: getAdapter throws, or the call of generate does
NoAdapter ==
    \E target \in UnregisteredNames :
        LET got == getAdapter(target)
        IN  Caught(target, IF got.threw THEN got.message ELSE NotAFunction)

\* the adapters whose generate is made to throw
ThrowingAdapters == { "claude", "codex", "amp" }

RaisedInGenerate == << "(the message of the exception raised in generate)" >>

\* adapter.generate(ir) throws for a registered target
GenerateThrows ==
    \E target \in ThrowingAdapters :
        /\ ~getAdapter(target).threw
        /\ MayCall(target)
        /\ Caught(target, RaisedInGenerate)

\* `---\npaths:\n${pathsYaml}\n---\n\n${rule.content.trim()}\n` for a glob rule,
\* `${rule.content.trim()}\n` for any other
ClaudeRuleContent(rule) ==
    IF rule.scope = "glob" /\ rule.globs.has /\ Len(rule.globs.v) > 0
    THEN Lit("---\npaths:\n") \o GlobsYaml(rule.globs.v) \o Lit("\n---\n\n")
             \o Body(Trim(rule.content)) \o Lit("\n")
    ELSE Body(Trim(rule.content)) \o Lit("\n")

RECURSIVE ToolLines(_)
ToolLines(tools) ==
    IF tools = << >> THEN << >>
    ELSE << Lit("  - ") \o Lit(Head(tools)) >> \o ToolLines(Tail(tools))

ClaudeAgentContent(agent) ==
    LET fmLines == << Lit("description: \"") \o Lit(agent.description) \o Lit("\"") >>
                       \o (IF agent.model.has /\ agent.model.v # ""
                           THEN << Lit("model: ") \o Lit(agent.model.v) >> ELSE << >>)
                       \o (IF agent.tools.has /\ Len(agent.tools.v) > 0
                           THEN << Lit("tools:") >> \o ToolLines(agent.tools.v) ELSE << >>)
    IN  Lit("---\n") \o Join(fmLines, "\n") \o Lit("\n---") \o Lit("\n\n")
            \o Body(Trim(agent.content)) \o Lit("\n")

\* no file for any command
NoCommandFiles(commands, prefix) == << >>

\* `${cmd.content.trim()}\n` under `${prefix}/commands/${cmd.name}.md`
CommandFiles(commands, prefix) ==
    [i \in DOMAIN commands |->
        File(Lit(prefix) \o Lit("/commands/") \o Lit(commands[i].name) \o Lit(".md"),
             Body(Trim(commands[i].content)) \o Lit("\n"))]

claudeAdapter(irv) ==
    Result(
        NewFiles
            \o [i \in DOMAIN irv.rules |->
                   File(Lit(".claude/rules/") \o Lit(irv.rules[i].name) \o Lit(".md"),
                        ClaudeRuleContent(irv.rules[i]))]
            \o (IF Len(irv.hooks) > 0
                THEN << File(Lit(".claude/settings.json"), SettingsContent(irv.hooks)) >>
                ELSE << >>)
            \o CommandFiles(irv.commands, ".claude")
            \o AllSkillFiles(irv.skills, ".claude")
            \o [i \in DOMAIN irv.agents |->
                   File(Lit(".claude/agents/") \o Lit(irv.agents[i].name) \o Lit(".md"),
                        ClaudeAgentContent(irv.agents[i]))],
        << >>,
        << "instructions" >>
            \o Pushed(<< <<HasScope(irv.rules, "glob"), "scoped-rules">>,
                         <<Len(irv.hooks) > 0, "hooks">>,
                         <<Len(irv.commands) > 0, "commands">>,
                         <<Len(irv.skills) > 0, "skills">>,
                         <<Len(irv.agents) > 0, "agents">> >>),
        Pushed(<< <<HasScope(irv.rules, "description"),
                    "description-triggered rules (converted to always-on rules)">>,
                  <<HasScope(irv.rules, "manual"),
                    "manual rules (converted to always-on rules)">> >>))

CursorFrontmatter(rule) ==
    CASE rule.scope = "always" -> Lit("---\nalwaysApply: true\n---")
      [] rule.scope = "glob" ->
            Lit("---\nglobs: \"") \o GlobList(rule, ",") \o Lit("\"\nalwaysApply: false\n---")
      [] rule.scope = "description" ->
            Lit("---\ndescription: \"")
                \o Lit(IF rule.description.has THEN rule.description.v ELSE rule.name)
                \o Lit("\"\nalwaysApply: false\n---")
      [] rule.scope = "manual" -> Lit("---\nalwaysApply: false\n---")

CursorHooksContent(hooks) ==
    Lit("---\nalwaysApply: true\n---\n\n")
        \o TrimText(Join(<< Lit("# Hooks"), Lit(""),
                            Lit("Follow these behavioral rules for hooks:"), Lit("") >>
                             \o AllHookLines(hooks, "## "), "\n"))
        \o Lit("\n")

CursorAgentContent(agent) ==
    LET fmLines == (IF agent.description # ""
                    THEN << Lit("description: \"") \o Lit(agent.description) \o Lit("\"") >>
                    ELSE << >>)
                       \o (IF agent.model.has /\ agent.model.v # ""
                           THEN << Lit("model: ") \o Lit(agent.model.v) >> ELSE << >>)
    IN  (IF Len(fmLines) > 0
         THEN Lit("---\n") \o Join(fmLines, "\n") \o Lit("\n---\n\n") ELSE << >>)
            \o Body(Trim(agent.content)) \o Lit("\n")

cursorAdapter(irv) ==
    Result(
        NewFiles
            \o [i \in DOMAIN irv.rules |->
                   File(Lit(".cursor/rules/") \o Lit(irv.rules[i].name) \o Lit(".mdc"),
                        CursorFrontmatter(irv.rules[i]) \o Lit("\n\n")
                            \o Body(Trim(irv.rules[i].content)) \o Lit("\n"))]
            \o (IF Len(irv.hooks) > 0
                THEN << File(Lit(".cursor/rules/agentrc-hooks.mdc"),
                             CursorHooksContent(irv.hooks)) >>
                ELSE << >>)
            \o CommandFiles(irv.commands, ".cursor")
            \o AllSkillFiles(irv.skills, ".cursor")
            \o [i \in DOMAIN irv.agents |->
                   File(Lit(".cursor/agents/") \o Lit(irv.agents[i].name) \o Lit(".md"),
                        CursorAgentContent(irv.agents[i]))],
        << >>,
        << "instructions", "scoped-rules" >>
            \o Pushed(<< <<Len(irv.commands) > 0, "commands">>,
                         <<Len(irv.skills) > 0, "skills">>,
                         <<Len(irv.agents) > 0, "agents">> >>),
        Pushed(<< <<Len(irv.hooks) > 0,
                    "hooks (folded into behavioral instructions rule)">> >>))

\* the glob rules' own files: `---\napplyTo: "${globStr}"\n---` before the body
RECURSIVE CopilotInstructionFiles(_)
CopilotInstructionFiles(rules) ==
    IF rules = << >> THEN << >>
    ELSE LET rule == Head(rules)
         IN  (IF rule.scope = "glob"
              THEN << File(Lit(".github/instructions/") \o Lit(rule.name)
                               \o Lit(".instructions.md"),
                           Lit("---\napplyTo: \"") \o GlobList(rule, ",") \o Lit("\"\n---")
                               \o Lit("\n\n") \o Body(Trim(rule.content)) \o Lit("\n")) >>
              ELSE << >>) \o CopilotInstructionFiles(Tail(rules))

copilotAdapter(irv) ==
    LET mainSections ==
            RuleSections(irv.rules, {"always", "manual"}, "plain")
                \o RuleSections(irv.rules, {"description"}, "description")
                \o (IF Len(irv.skills) > 0 THEN << renderSkillsSection(irv.skills) >>
                    ELSE << >>)
    IN  Result(
            NewFiles
                \o CopilotInstructionFiles(irv.rules)
                \o << File(Lit(".github/copilot-instructions.md"),
                           SectionsContent(mainSections)) >>,
            << >>,
            << "instructions", "scoped-rules" >>,
            Pushed(<< <<HasScope(irv.rules, "description"),
                        "description-triggered rules (folded into instructions)">>,
                      <<Len(irv.skills) > 0, "skills (folded into skills section)">> >>))

\* String(index).padStart(2, '0')
TwoDigits(index) == IF index < 10 THEN "0" \o ToString(index) ELSE ToString(index)

ClineRuleContent(rule) ==
    IF rule.scope = "glob" /\ rule.globs.has /\ Len(rule.globs.v) > 0
    THEN Lit("---\npaths:\n") \o GlobsYaml(rule.globs.v) \o Lit("\n---\n\n")
             \o Body(Trim(rule.content)) \o Lit("\n")
    ELSE Body(Trim(rule.content)) \o Lit("\n")

clineAdapter(irv) ==
    Result(
        NewFiles
            \o [i \in DOMAIN irv.rules |->
                   File(Lit(".clinerules/") \o Lit(TwoDigits(i)) \o Lit("-")
                            \o Lit(irv.rules[i].name) \o Lit(".md"),
                        ClineRuleContent(irv.rules[i]))]
            \o (IF Len(irv.skills) > 0
                THEN << File(Lit(".clinerules/00-agentrc-conventions.md"),
                             TrimText(Join(<< Lit("## Skills"), Lit("") >>
                                               \o SkillConventionLines(irv.skills), "\n"))
                                 \o Lit("\n")) >>
                ELSE << >>),
        << >>,
        << "instructions", "scoped-rules" >>,
        Pushed(<< <<Len(irv.skills) > 0, "skills (folded into conventions file)">> >>))

geminiAdapter(irv) ==
    LET sections ==
            RuleSections(irv.rules, {"always", "manual"}, "plain")
                \o RuleSections(irv.rules, {"glob"}, "glob")
                \o RuleSections(irv.rules, {"description"}, "description")
    IN  Result(
            NewFiles
                \o AllSkillFiles(irv.skills, ".gemini")
                \o << File(Lit("GEMINI.md"), SectionsContent(sections)) >>,
            << >>,
            << "instructions" >> \o Pushed(<< <<Len(irv.skills) > 0, "skills">> >>),
            Pushed(<< <<HasScope(irv.rules, "glob"),
                        "scoped-rules (folded into instructions with file-match prefix)">>,
                      <<HasScope(irv.rules, "description"),
                        "description-triggered rules (folded into instructions)">> >>))

codexAdapter(irv) ==
    LET sections ==
            RuleSections(irv.rules, {"always", "manual"}, "plain")
                \o RuleSections(irv.rules, {"glob"}, "glob")
                \o RuleSections(irv.rules, {"description"}, "description")
                \o (IF Len(irv.hooks) > 0 THEN << renderHooksSection(irv.hooks) >> ELSE << >>)
    IN  Result(
            NewFiles
                \o << File(Lit("AGENTS.md"), SectionsContent(sections)) >>
                \o AllSkillFiles(irv.skills, ".agents"),
            << >>,
            << "instructions", "skills" >>,
            Pushed(<< <<HasScope(irv.rules, "glob"),
                        "scoped-rules (folded into instructions with file-path annotations)">>,
                      <<HasScope(irv.rules, "description"),
                        "description-triggered rules (folded into instructions)">>,
                      <<Len(irv.hooks) > 0,
                        "hooks (folded into behavioral instructions)">> >>))

\* createGenericAdapter(name, outputPath).generate
createGenericAdapter(outputPath, irv) ==
    LET sections ==
            RuleSections(irv.rules, {"always", "manual"}, "plain")
                \o RuleSections(irv.rules, {"glob"}, "glob")
                \o RuleSections(irv.rules, {"description"}, "description")
                \o (IF Len(irv.hooks) > 0 THEN << renderHooksSection(irv.hooks) >> ELSE << >>)
                \o (IF Len(irv.skills) > 0 THEN << renderSkillsSection(irv.skills) >>
                    ELSE << >>)
    IN  Result(
            NewFiles \o << File(Lit(outputPath), SectionsContent(sections)) >>,
            << >>,
            << "instructions" >>,
            Pushed(<< <<HasScope(irv.rules, "glob"),
                        "scoped-rules (folded into instructions with file-match annotations)">>,
                      <<HasScope(irv.rules, "description"),
                        "description-triggered rules (folded into instructions)">>,
                      <<Len(irv.hooks) > 0,
                        "hooks (folded into behavioral instructions)">>,
                      <<Len(irv.skills) > 0, "skills (folded into skills section)">> >>))

genericMarkdownAdapter(irv) == createGenericAdapter("AGENTS.md", irv)
aiderAdapter(irv) == createGenericAdapter("CONVENTIONS.md", irv)
junieAdapter(irv) == createGenericAdapter(".junie/guidelines.md", irv)
amazonqAdapter(irv) == createGenericAdapter(".amazonq/rules/agentrc.md", irv)
ampAdapter(irv) == createGenericAdapter("AGENTS.md", irv)
rooAdapter(irv) == createGenericAdapter("AGENTS.md", irv)

Claude == Invoke("claude", claudeAdapter(ir))
Cursor == Invoke("cursor", cursorAdapter(ir))
Copilot == Invoke("copilot", copilotAdapter(ir))
Cline == Invoke("cline", clineAdapter(ir))
Gemini == Invoke("gemini", geminiAdapter(ir))
Codex == Invoke("codex", codexAdapter(ir))
GenericMarkdown == Invoke("generic-markdown", genericMarkdownAdapter(ir))
Aider == Invoke("aider", aiderAdapter(ir))
Junie == Invoke("junie", junieAdapter(ir))
Amazonq == Invoke("amazonq", amazonqAdapter(ir))
Amp == Invoke("amp", ampAdapter(ir))
Roo == Invoke("roo", rooAdapter(ir))

-----------------------------------------------------------------------------
(* Inputs of the budget allocator *)

\* 5971 renders to a block of exactly RULE_CHAR_LIMIT characters
RuleSizes == {5971, 6100}

LoadedSkill(name, description, len, files) ==
    [ name |-> name, description |-> description,
      content |-> Content("body of skill " \o name, len), files |-> files,
      sourcePath |-> ".agentrc/skills/" \o name \o "/SKILL.md" ]

\* collectSkillFiles reads supporting files as they are: a trailing newline stays
SupportingFile(path, len) ==
    [ path |-> path, content |-> [id |-> "content of " \o path, len |-> len, pad |-> 1] ]

SkillChoices ==
    { << >>,
      << LoadedSkill("debugging", "Systematic debugging methodology", 700,
                     << SupportingFile("references/advanced-techniques.md", 300) >>) >> }

BudgetSources ==
    UNION { { SourceOf([i \in 1..k |->
                           LoadedRule(RuleName(i), PlainFrontmatter(ps[i]), sz[i])],
                       <<>>, <<>>, skills, <<>>) :
                ps \in [1..k -> Priorities], sz \in [1..k -> RuleSizes],
                skills \in SkillChoices } : k \in 0..MaxBudgetRules }

InitBudget == InitWith(BudgetSources)

NextBudget == BuildIR \/ WindsurfBegin \/ WindsurfRule \/ WindsurfEnd \/ LoopEnd

SpecBudget == InitBudget /\ [][NextBudget]_vars

-----------------------------------------------------------------------------
(* Inputs of the build: the fixture of the tests, and rule lists drawn from   *)
(* its rules and one rule too long for the Windsurf budget                    *)

Frontmatter(alwaysApply, manual, globs, description, priority) ==
    [ alwaysApply |-> alwaysApply, manual |-> manual, globs |-> globs,
      description |-> description, priority |-> priority ]

\* the rule files of the directory, in the order of their names
RulePool ==
    << LoadedRule("database-migrations",
                  Frontmatter(AbsentFlag, AbsentFlag, AbsentSeq,
                              Some("when editing migrations"), Some("low")), 60),
       LoadedRule("legacy-notes",
                  Frontmatter(Some(FALSE), AbsentFlag, AbsentSeq, AbsentStr,
                              Some("critical")), 30),
       LoadedRule("react-components",
                  Frontmatter(AbsentFlag, AbsentFlag, Some(<<"src/**/*.tsx", "src/**/*.jsx">>),
                              AbsentStr, Some("high")), 50),
       LoadedRule("typescript-strict",
                  Frontmatter(AbsentFlag, AbsentFlag, AbsentSeq, AbsentStr, AbsentStr), 40),
       LoadedRule("zz-reference",
                  Frontmatter(AbsentFlag, AbsentFlag, AbsentSeq,
                              Some("when looking up the API"), Some("low")), 12100) >>

FixtureRuleNames ==
    {"database-migrations", "legacy-notes", "react-components", "typescript-strict"}

RECURSIVE SelectRules(_, _)
SelectRules(pool, names) ==
    IF pool = << >> THEN << >>
    ELSE (IF Head(pool).name \in names THEN << Head(pool) >> ELSE << >>)
             \o SelectRules(Tail(pool), names)

PoolNames == {RulePool[i].name : i \in DOMAIN RulePool}

FixtureHook ==
    [ event |-> "post-edit",
      match |-> Some(<< "*", "*", "/", "*", ".", "t", "s" >>),
      run |-> << "prettier --write ", "{file}" >>,
      description |-> AbsentStr ]

FixtureCommand ==
    [ name |-> "test",
      fm |-> [description |-> Some("Run the test suite"), aliases |-> Some(<< "t" >>)],
      content |-> Content("body of command test", 80),
      sourcePath |-> SourcePathOf("commands", "test") ]

FixtureSkill ==
    LoadedSkill("debugging", "Systematic debugging methodology", 700,
                << SupportingFile("references/advanced-techniques.md", 300) >>)

FixtureAgent ==
    [ name |-> "reviewer",
      fm |-> [ description |-> Some("Reviews code changes"), model |-> Some("sonnet"),
               tools |-> Some(<< "Read", "Grep" >>) ],
      content |-> Content("body of agent reviewer", 90),
      sourcePath |-> SourcePathOf("agents", "reviewer") ]

FixtureSource ==
    SourceOf(SelectRules(RulePool, FixtureRuleNames), << FixtureHook >>,
             << FixtureCommand >>, << FixtureSkill >>, << FixtureAgent >>)

RuleListSources ==
    { SourceOf(SelectRules(RulePool, names), << >>, << >>, << >>, << >>) :
          names \in {n \in SUBSET PoolNames : Cardinality(n) <= MaxRules} }

Init == InitWith({FixtureSource} \cup RuleListSources)

Next ==
    \/ BuildIR
    \/ Claude \/ Cursor \/ Copilot \/ Cline \/ Gemini \/ Codex
    \/ GenericMarkdown \/ Aider \/ Junie \/ Amazonq \/ Amp \/ Roo
    \/ WindsurfBegin \/ WindsurfRule \/ WindsurfEnd
    \/ LoopEnd

Spec == Init /\ [][Next]_vars

-----------------------------------------------------------------------------
(* Inputs of the hook compiler: config.hooks of agentrc.json *)

\* longest match glob spelled out character by character
MaxGlobLen == 4
\* longest hook list of a source in the hook specification
MaxHooks == 2

GlobAlphabet == {"*", ".", "?", "{", "}", ",", "s"}

EnumeratedGlobs == UNION { [1..k -> GlobAlphabet] : k \in 1..MaxGlobLen }

\* "**/*.ts", "src/**/*.{ts,tsx}", "*.{js,ts}", "docs/?.md"
WrittenGlobs ==
    { << "*", "*", "/", "*", ".", "t", "s" >>,
      << "s", "r", "c", "/", "*", "*", "/", "*", ".", "{", "t", "s", ",", "t", "s", "x", "}" >>,
      << "*", ".", "{", "j", "s", ",", "t", "s", "}" >>,
      << "d", "o", "c", "s", "/", "?", ".", "m", "d" >> }

MatchValues == {AbsentSeq, Some(<< >>)} \cup {Some(g) : g \in WrittenGlobs}

\* run: a command line, a script under .agentrc/hooks, with and without {file}
RunValues ==
    { << "npm run lint" >>,
      << "prettier --write ", "{file}" >>,
      << "hooks/", "check.sh" >>,
      << "hooks/", "format.sh ", "{file}", " && git add ", "{file}" >> }

Hook(event, match, run) ==
    [ event |-> event, match |-> match, run |-> run, description |-> AbsentStr ]

\* one post-edit hook over every enumerated glob
GlobHookLists ==
    { << Hook("post-edit", Some(g), << "npm run lint" >>) >> : g \in EnumeratedGlobs }

\* one hook, every event, match and run
SingleHookLists ==
    { << Hook(e, m, r) >> : e \in HookEvents, m \in MatchValues, r \in RunValues }

\* up to MaxHooks hooks, every sequence of events
EventHookLists ==
    UNION { [1..k -> { Hook(e, Some(<< "*", "*", "/", "*", ".", "t", "s" >>), r) :
                           e \in HookEvents,
                           r \in {<< "npm run lint" >>, << "prettier --write ", "{file}" >>} }] :
                k \in 1..MaxHooks }

HookSources ==
    { SourceOf(<< >>, hooks, << >>, << >>, << >>) :
          hooks \in GlobHookLists \cup SingleHookLists \cup EventHookLists }

InitHooks == InitWith(HookSources)

NextHooks == BuildIR \/ Claude \/ LoopEnd

SpecHooks == InitHooks /\ [][NextHooks]_vars

-----------------------------------------------------------------------------
(* The output writer: writeOutputFiles, readManifest, cleanGeneratedFiles    *)
(*                                                                          *)
(* A file on disk is [text, marked, foreign]: its generated text, whether   *)
(* it carries the generated marker, and the keys of a structured document   *)
(* that were put there by someone else.                                     *)

\* builds run one after the other on the same project
MaxBuilds == 2
\* writes that fail during one build
MaxFailures == 1

DiskFile(text, marked, foreign) == [text |-> text, marked |-> marked, foreign |-> foreign]

\* full ownership: the content behind the generated marker
Generated(content) == DiskFile(content, TRUE, {})

\* a merge that keeps none of the keys it did not produce
MergedOwnedOnly(old, content) == DiskFile(content, old.marked, {})

\* partial ownership: the produced keys merged into the document, every other
\* key kept as it is
Merged(old, content) == DiskFile(content, old.marked, old.foreign)

Checksum(file) == [algorithm |-> "sha256", of |-> file]

\* the shared structured documents
Structured(path) == path = Lit(".claude/settings.json")

MANIFEST_VERSION == "0.1.0"

Recorded(m, path) == {k \in DOMAIN m.files : m.files[k].path = path}

IsTracked(m, path) == m.exists /\ Recorded(m, path) # {}

RecordedChecksum(m, path) == m.files[CHOOSE k \in Recorded(m, path) : TRUE].checksum

\* a manifest that grows by one entry with every write
TrackAppended(m, path, sum) ==
    [ exists |-> TRUE, version |-> "0.1.0",
      files |-> Append(m.files, [path |-> path, checksum |-> sum]) ]

\* a writer that records nothing while it writes
TrackNothing(m, path, sum) == m

\* the manifest with the path recorded under the checksum
Track(m, path, sum) ==
    [ exists |-> TRUE, version |-> MANIFEST_VERSION,
      files |-> IF Recorded(m, path) # {}
                THEN [k \in DOMAIN m.files |->
                         IF m.files[k].path = path
                         THEN [path |-> path, checksum |-> sum] ELSE m.files[k]]
                ELSE Append(m.files, [path |-> path, checksum |-> sum]) ]

Mismatch(path) ==
    IsTracked(manifest, path) /\ RecordedChecksum(manifest, path) # Checksum(disk[path])

\* every existing file is taken for a generated one
OwnershipByExistence(path) ==
    IF path \notin DOMAIN disk THEN "absent" ELSE "generated"

\* the ownership class of a target path
Ownership(path) ==
    IF path \notin DOMAIN disk THEN "absent"
    ELSE IF disk[path].marked
    THEN IF Mismatch(path) THEN "modified" ELSE "generated"
    ELSE IF Structured(path)
    THEN IF IsTracked(manifest, path) /\ ~Mismatch(path) THEN "shared" ELSE "shared-foreign"
    ELSE "foreign"

\* how the file of a class is written
WriteState(class) ==
    IF class \in {"shared", "shared-foreign"} THEN "merging" ELSE "overwriting"

\* what happens first to the file of a class
PersistState(class) ==
    IF class \in {"foreign", "modified", "shared-foreign"} THEN "backing-up"
    ELSE WriteState(class)

\* a writer that commits whatever failed
TerminalAlwaysCommitted(errors) == "manifest-committed"

TerminalState(errors) ==
    IF errors = << >> THEN "manifest-committed" ELSE "partial-failure"

\* the state after file i has been dealt with
StateAfter(w, errors) ==
    IF w.i = Len(w.files) THEN TerminalState(errors)
    ELSE PersistState(w.owner[w.i + 1])

Terminal == {"manifest-committed", "partial-failure"}

\* the adapters in the order of their first calls
RECURSIVE CallOrder(_)
CallOrder(done) ==
    IF done = Called THEN << >>
    ELSE LET a == CHOOSE a \in Called \ done : first[a].after = done
         IN  << a >> \o CallOrder(done \cup {a})

\* the files of the targets in turn, a file left out when an earlier one
\* goes to the same path
RECURSIVE WithoutRepeatedPaths(_)
WithoutRepeatedPaths(files) ==
    IF files = << >> THEN << >>
    ELSE LET rest == WithoutRepeatedPaths(SubSeq(files, 1, Len(files) - 1))
             f == files[Len(files)]
         IN  IF \E k \in DOMAIN rest : rest[k].path = f.path THEN rest ELSE Append(rest, f)

FilesWithoutRepeatedPaths ==
    WithoutRepeatedPaths(Concat([k \in DOMAIN CallOrder({}) |->
                                    first[CallOrder({})[k]].result.files]))

\* only the files of the first target are kept
FilesOfFirstTarget ==
    IF Called = {} THEN << >> ELSE first[Head(CallOrder({}))].result.files

\* targets.length > 0: a target was generated or failed in the loop
SomeTarget == Called # {} \/ reported # << >>

\* allFiles.push(...result.files) for each target in turn
allFiles ==
    Concat([k \in DOMAIN CallOrder({}) |-> first[CallOrder({})[k]].result.files])

\* const result = await writeOutputFiles(allFiles, { rootDir })
WriterBegin ==
    /\ pc = "generated"
    /\ SomeTarget
    /\ pc' = "writing"
    /\ writer' = [ IdleWriter EXCEPT !.state = "resolving-ownership",
                                     !.files = allFiles,
                                     !.run = writer.run + 1 ]
    /\ UNCHANGED <<source, reported, ir, loc, first, last, disk, backups, gitignore, manifest>>

\* a dry run that puts the listed files on disk
DryRunWritingFiles ==
    /\ pc = "generated"
    /\ SomeTarget
    /\ pc' = "done"
    /\ disk' = [ p \in DOMAIN disk \cup { allFiles[k].path : k \in DOMAIN allFiles } |->
                   IF \E k \in DOMAIN allFiles : allFiles[k].path = p
                   THEN Generated(allFiles[CHOOSE k \in DOMAIN allFiles :
                                               allFiles[k].path = p].content)
                   ELSE disk[p] ]
    /\ UNCHANGED <<source, reported, ir, loc, first, last, backups, gitignore, manifest, writer>>

\* options.dryRun: the paths are listed and nothing is written
DryRun ==
    /\ pc = "generated"
    /\ SomeTarget
    /\ pc' = "done"
    /\ UNCHANGED <<source, reported, ir, loc, first, last, outVars>>

\* every target path is classified before anything is written
ResolveOwnership ==
    /\ pc = "writing"
    /\ writer.state = "resolving-ownership"
    /\ LET owner == [k \in DOMAIN writer.files |-> Ownership(writer.files[k].path)]
       IN  writer' = [ writer EXCEPT
                         !.owner = owner,
                         !.state = IF writer.files = << >> THEN TerminalState(<< >>)
                                   ELSE PersistState(owner[1]),
                         !.i = IF writer.files = << >> THEN 0 ELSE 1 ]
    /\ pc' = IF writer.files = << >> THEN "written" ELSE "writing"
    /\ UNCHANGED <<source, reported, ir, loc, first, last, disk, backups, gitignore, manifest>>

BackupWarning(path, class) == [ kind |-> "backed up", path |-> path, class |-> class ]

\* the current content is copied under .agentrc/.backup/ before the write
BackUp ==
    /\ pc = "writing"
    /\ writer.state = "backing-up"
    /\ LET path == writer.files[writer.i].path
       IN  /\ backups' = backups \cup { [ path |-> path, file |-> disk[path],
                                          stamp |-> writer.run ] }
           /\ writer' = [ writer EXCEPT
                            !.state = WriteState(writer.owner[writer.i]),
                            !.backed_up = Append(@, path),
                            !.warnings = Append(@, BackupWarning(path, writer.owner[writer.i])) ]
    /\ UNCHANGED <<source, reported, ir, pc, loc, first, last, disk, gitignore, manifest>>

\* file i is written as `file`, or the write fails
Persist(file) ==
    LET path == writer.files[writer.i].path
    IN  \E ok \in BOOLEAN :
            /\ ~ok => Len(writer.errors) < MaxFailures
            /\ disk' = IF ok THEN (path :> file) @@ disk ELSE disk
            /\ manifest' = IF ok THEN Track(manifest, path, Checksum(file)) ELSE manifest
            /\ LET errors == IF ok THEN writer.errors
                             ELSE Append(writer.errors, [path |-> path])
               IN  /\ writer' = [ writer EXCEPT
                                    !.written = IF ok THEN Append(@, path) ELSE @,
                                    !.errors = errors,
                                    !.state = StateAfter(writer, errors),
                                    !.i = IF writer.i = Len(writer.files) THEN @ ELSE @ + 1 ]
                   /\ pc' = IF StateAfter(writer, errors) \in Terminal
                            THEN "written" ELSE "writing"
            /\ UNCHANGED <<source, reported, ir, loc, first, last, backups, gitignore>>

Overwrite ==
    /\ pc = "writing"
    /\ writer.state = "overwriting"
    /\ Persist(Generated(writer.files[writer.i].content))

Merge ==
    /\ pc = "writing"
    /\ writer.state = "merging"
    /\ Persist(Merged(disk[writer.files[writer.i].path], writer.files[writer.i].content))

(* .gitignore: the content is a text whose pieces are lines and newlines *)

BLOCK_START == "# >>> agentrc managed (do not edit) >>>"
BLOCK_END == "# <<< agentrc managed <<<"

\* the characters of a text
RECURSIVE TextString(_)
TextString(t) == IF t = << >> THEN "" ELSE Head(t).s \o TextString(Tail(t))

\* the paths of the model as Array.prototype.sort orders them without a
\* comparator: by UTF-16 code units ('.' 46 < '/' 47 < 'A' 65 < 'a' 97)
CodeUnitOrder ==
    << ".claude/rules/r1.md", ".claude/settings.json", ".cursor/", "AGENTS.md",
       "CLAUDE.md", "GEMINI.md" >>

CodeUnitRank(entry) == CHOOSE k \in DOMAIN CodeUnitOrder : CodeUnitOrder[k] = TextString(entry)

RECURSIVE InsertEntry(_, _)
InsertEntry(x, sorted) ==
    IF sorted = << >> THEN << x >>
    ELSE IF CodeUnitRank(Head(sorted)) > CodeUnitRank(x) THEN << x >> \o sorted
    ELSE << Head(sorted) >> \o InsertEntry(x, Tail(sorted))

\* [...entries].sort()
RECURSIVE SortEntries(_)
SortEntries(entries) ==
    IF entries = << >> THEN << >>
    ELSE InsertEntry(entries[Len(entries)], SortEntries(SubSeq(entries, 1, Len(entries) - 1)))

\* buildBlock: [BLOCK_START, ...sorted, BLOCK_END].join('\n')
buildBlock(entries) ==
    Join(<< Lit(BLOCK_START) >> \o SortEntries(entries) \o << Lit(BLOCK_END) >>, "\n")

\* content.indexOf(marker), as a position among the pieces (0: not found)
IndexOf(content, marker) ==
    IF Includes(content, marker)
    THEN CHOOSE i \in DOMAIN content :
             /\ content[i].s = marker
             /\ \A j \in 1 .. (i - 1) : content[j].s # marker
    ELSE 0

\* content.endsWith('\n')
EndsWithNewline(content) == content # << >> /\ content[Len(content)].s = "\n"

\* content.slice(0, startIdx) and content.slice(endIdx), endIdx being the
\* end of the first BLOCK_END
BeforeBlock(content) == SubSeq(content, 1, IndexOf(content, BLOCK_START) - 1)
AfterBlock(content) == SubSeq(content, IndexOf(content, BLOCK_END) + 1, Len(content))

\* an update that always appends its block
appendBlock(content, entries) ==
    IF entries = << >> THEN content
    ELSE IF content = << >> THEN buildBlock(entries) \o Lit("\n")
    ELSE content \o Lit("\n") \o buildBlock(entries) \o Lit("\n")

\* updateGitignore: the content written back for the entries (the content as
\* it is when there are none)
updateGitignore(content, entries) ==
    IF entries = << >> THEN content
    ELSE IF Includes(content, BLOCK_START) /\ Includes(content, BLOCK_END)
    THEN BeforeBlock(content) \o buildBlock(entries) \o AfterBlock(content)
    ELSE IF content = << >> THEN buildBlock(entries) \o Lit("\n")
    ELSE content \o (IF EndsWithNewline(content) THEN Lit("\n") ELSE Lit("\n") \o Lit("\n"))
             \o buildBlock(entries) \o Lit("\n")

\* await updateGitignore(rootDir, result.written), and the summary
UpdateGitignore ==
    /\ pc = "written"
    /\ gitignore' = updateGitignore(gitignore, writer.written)
    /\ pc' = "done"
    /\ UNCHANGED <<source, reported, ir, loc, first, last, disk, backups, manifest, writer>>

\* agentrc build, run again on the same sources
Rerun ==
    /\ pc = "done"
    /\ writer.run < MaxBuilds
    /\ pc' = "load"
    /\ ir' = NoIR
    /\ loc' = IdleLocals
    /\ first' = << >>
    /\ last' = NoCall
    /\ writer' = [ IdleWriter EXCEPT !.run = writer.run ]
    /\ reported' = << >>
    /\ UNCHANGED <<source, disk, backups, gitignore, manifest>>

HandEdited == Lit("edited by hand")

UserKey == [ key |-> "permissions", value |-> "allow: Bash" ]

SettingsPath == Lit(".claude/settings.json")

\* the generated rule file, the one a user edits by hand between builds
RulePath == Lit(".claude/rules/") \o Lit(RuleName(1)) \o Lit(".md")

\* before a build somebody edits a generated file, or adds a key to the
\* settings
ExternalEdit ==
    /\ pc = "load"
    /\ \/ /\ RulePath \in DOMAIN disk
          /\ disk[RulePath].marked
          /\ disk[RulePath].text # HandEdited
          /\ disk' = [disk EXCEPT ![RulePath].text = HandEdited]
       \/ /\ SettingsPath \in DOMAIN disk
          /\ UserKey \notin disk[SettingsPath].foreign
          /\ disk' = [disk EXCEPT ![SettingsPath].foreign = @ \cup {UserKey}]
    /\ UNCHANGED <<source, reported, ir, pc, loc, first, last, backups, gitignore, manifest, writer>>

\* the tracked files that exist are deleted, then the manifest
cleanGeneratedFiles ==
    [ p \in {q \in DOMAIN disk : ~IsTracked(manifest, q)} |-> disk[p] ]

\* a cleanup that leaves .gitignore alone
KeepGitignoreBlock(content) == content

\* removeGitignoreBlock: the managed block is cut out of the content, the
\* blank lines at the junction and at the end with it
removeGitignoreBlock(content) ==
    IF ~Includes(content, BLOCK_START) \/ ~Includes(content, BLOCK_END) THEN content
    ELSE LET cleaned == TrimEnd(TrimEnd(BeforeBlock(content)) \o AfterBlock(content))
         IN  IF cleaned # << >> THEN cleaned \o Lit("\n") ELSE << >>

\* agentrc clean, run before a build
Clean ==
    /\ pc = "load"
    /\ IF ~manifest.exists
       THEN UNCHANGED <<disk, manifest, gitignore>>
       ELSE /\ disk' = cleanGeneratedFiles
            /\ manifest' = NoManifest
            /\ gitignore' = removeGitignoreBlock(gitignore)
    /\ UNCHANGED <<source, reported, ir, pc, loc, first, last, backups, writer>>

(* Inputs of the writer: one rule and one hook, on a project that may hold   *)
(* files written by hand                                                     *)

WriterSource ==
    SourceOf(<< LoadedRule(RuleName(1), PlainFrontmatter("normal"), 40) >>,
             << FixtureHook >>, << >>, << >>, << >>)

HandWritten(path, foreign) ==
    [ path |-> path, file |-> DiskFile(Lit("written by hand"), FALSE, foreign) ]

\* the settings file a user keeps before the first build
OwnSettings == HandWritten(SettingsPath, {[ key |-> "model", value |-> "opus" ]})

PreExisting ==
    { HandWritten(Lit(".claude/rules/team-notes.md"), {}),
      HandWritten(Lit("AGENTS.md"), {}),
      OwnSettings }

DiskOf(entries) ==
    [ p \in {x.path : x \in entries} |-> (CHOOSE x \in entries : x.path = p).file ]

\* a project that starts with the disk and has never been built
InitOn(disks) ==
    /\ InitProgram({WriterSource})
    /\ disk \in disks
    /\ backups = {}
    /\ gitignore = NoBlock
    /\ manifest = NoManifest
    /\ writer = IdleWriter

\* an empty project, and one that holds the three files written by hand
InitWriter == InitOn({DiskOf({}), DiskOf(PreExisting)})

NextWriter ==
    \/ BuildIR \/ Claude \/ Codex \/ LoopEnd
    \/ WriterBegin \/ DryRun \/ ResolveOwnership \/ BackUp \/ Overwrite \/ Merge
    \/ UpdateGitignore \/ Rerun \/ ExternalEdit \/ Clean

SpecWriter == InitWriter /\ [][NextWriter]_vars

\* one build whose target list may hold claude, codex, amp, names that are no
\* key of the registry, and targets whose generate throws
NextTargets ==
    \/ BuildIR \/ Claude \/ Codex \/ Amp \/ NoAdapter \/ GenerateThrows \/ LoopEnd
    \/ WriterBegin \/ DryRun \/ ResolveOwnership \/ BackUp \/ Overwrite \/ Merge
    \/ UpdateGitignore

SpecTargets == InitWriter /\ [][NextTargets]_vars

\* the writer, once called, runs to its end
SpecWriterLive ==
    /\ InitOn({DiskOf({OwnSettings})})
    /\ [][NextWriter]_vars
    /\ WF_vars(ResolveOwnership \/ BackUp \/ Overwrite \/ Merge)

-----------------------------------------------------------------------------
(* Inputs of updateGitignore: the calls made on one .gitignore, build after  *)
(* build and cleanup after cleanup                                           *)

\* entries of one call
MaxEntries == 3

GitignoreEntries == { Lit("CLAUDE.md"), Lit(".cursor/"), Lit("GEMINI.md"), Lit("AGENTS.md") }

EntryLists == UNION { [1..k -> GitignoreEntries] : k \in 1..MaxEntries }

\* no .gitignore; one kept by hand, with and without a final newline; one in
\* which lines were added below the block of an earlier build
UserGitignores ==
    { << >>,
      Lit("node_modules/") \o Lit("\n") \o Lit(".env") \o Lit("\n"),
      Lit("node_modules/") \o Lit("\n") \o Lit(".env"),
      Lit("node_modules/") \o Lit("\n") \o Lit("\n") \o buildBlock(<< Lit("CLAUDE.md") >>)
          \o Lit("\n") \o Lit("dist/") \o Lit("\n") }

InitGitignore ==
    /\ InitProgram({WriterSource})
    /\ disk = << >>
    /\ backups = {}
    /\ gitignore \in UserGitignores
    /\ manifest = NoManifest
    /\ writer = IdleWriter

\* await updateGitignore(rootDir, result.written); writer.written keeps the
\* entries of the call
CallUpdateGitignore ==
    /\ pc = "load"
    /\ \E entries \in EntryLists :
           /\ gitignore' = updateGitignore(gitignore, entries)
           /\ writer' = [writer EXCEPT !.written = entries]
    /\ UNCHANGED <<source, reported, ir, pc, loc, first, last, disk, backups, manifest>>

\* await removeGitignoreBlock(rootDir)
CallRemoveGitignoreBlock ==
    /\ pc = "load"
    /\ gitignore' = removeGitignoreBlock(gitignore)
    /\ writer' = [writer EXCEPT !.written = << >>]
    /\ UNCHANGED <<source, reported, ir, pc, loc, first, last, disk, backups, manifest>>

NextGitignore == CallUpdateGitignore \/ CallRemoveGitignoreBlock

SpecGitignore == InitGitignore /\ [][NextGitignore]_vars

-----------------------------------------------------------------------------
(* Claims about the IR builder *)

Built == pc # "load"

\* the six-case precedence as the specification states it, first match wins
StatedScope(fm) ==
    CASE fm.alwaysApply = Some(TRUE)                        -> "always"
      [] fm.manual = Some(TRUE)                             -> "manual"
      [] fm.globs.has /\ fm.globs.v # <<>>                  -> "glob"
      [] fm.description.has /\ fm.description.v # ""        -> "description"
      [] fm.alwaysApply = Some(FALSE)                       -> "manual"
      [] OTHER                                              -> "always"

IndexOfName(rules, name) == CHOOSE i \in DOMAIN rules : rules[i].name = name

\* C4: sortByPriority returns the rules in non-decreasing rank (critical 0,
\* high 1, normal 2, low 3), and two rules of equal priority keep the
\* relative order they had in the input list.
C4_SortedAndStable ==
    Built =>
        /\ Len(ir.rules) = Len(source.rules)
        /\ \A j \in DOMAIN source.rules :
               \E i \in DOMAIN ir.rules : ir.rules[i].name = source.rules[j].name
        /\ \A i, j \in DOMAIN ir.rules :
               i < j =>
                   /\ priorityOrder(ir.rules[i].priority) <= priorityOrder(ir.rules[j].priority)
                   /\ ir.rules[i].priority = ir.rules[j].priority =>
                          IndexOfName(source.rules, ir.rules[i].name)
                              < IndexOfName(source.rules, ir.rules[j].name)

\* two low rules followed by a critical one: the critical rule moved to the
\* front and the two low rules kept their order
C4_Witness ==
    /\ Built
    /\ Len(source.rules) = 3
    /\ source.rules[1].fm.priority = Some("low")
    /\ source.rules[2].fm.priority = Some("low")
    /\ source.rules[3].fm.priority = Some("critical")
    /\ ir.rules[1].name = RuleName(3)
    /\ ir.rules[2].name = RuleName(1)
    /\ ir.rules[3].name = RuleName(2)

-----------------------------------------------------------------------------
(* Claims about the budget allocator of the Windsurf adapter *)

InWindsurf == pc = "windsurf"

\* the rules the running loop has already been through
Processed == 1 .. (loc.i - 1)

BlockLength(rule) == TextLen(WindsurfBlock(rule))

IsWritten(rule) == \E n \in DOMAIN loc.files : loc.files[n].path = WindsurfRulePath(rule)

IsDropped(rule) ==
    \E n \in DOMAIN loc.warnings :
        /\ loc.warnings[n].kind = "Dropping rule"
        /\ loc.warnings[n].rule = rule.name
        /\ loc.warnings[n].priority = rule.priority

HasPerFileWarning(rule) ==
    \E n \in DOMAIN loc.warnings :
        /\ loc.warnings[n].kind = "exceeding per-file limit"
        /\ loc.warnings[n].rule = rule.name

\* the allocation as the specification states it, over the first k rules
RECURSIVE StatedAllocation(_, _)
StatedAllocation(rules, k) ==
    IF k = 0 THEN [total |-> 0, written |-> << >>, dropped |-> << >>]
    ELSE LET before == StatedAllocation(rules, k - 1)
             rule == rules[k]
         IN  IF before.total + BlockLength(rule) > 12000
             THEN [before EXCEPT !.dropped = Append(@, <<rule.name, rule.priority>>)]
             ELSE [before EXCEPT !.total = @ + BlockLength(rule),
                                 !.written = Append(@, rule.name)]

WrittenNames ==
    LET RuleOf(f) == CHOOSE k \in DOMAIN ir.rules : f.path = WindsurfRulePath(ir.rules[k])
    IN  [n \in DOMAIN loc.files |-> ir.rules[RuleOf(loc.files[n])].name]

DropsWarned ==
    LET IsDrop(w) == w.kind = "Dropping rule"
        drops == SelectSeq(loc.warnings, IsDrop)
    IN  [n \in DOMAIN drops |-> <<drops[n].rule, drops[n].priority>>]

\* C7: the running total starts at 0; going through the rules in order, a rule
\* is excluded exactly when the running total plus the length of its block is
\* greater than 12000; an excluded rule is not written, leaves the total as it
\* was and gets a warning naming the rule and its priority; any other rule is
\* written and the total advances by the length of its block.
C7_ExcludedExactlyOverTotal ==
    InWindsurf =>
        LET stated == StatedAllocation(ir.rules, loc.i - 1)
        IN  /\ loc.totalChars = stated.total
            /\ WrittenNames = stated.written
            /\ DropsWarned = stated.dropped
            /\ \A k \in Processed : IsWritten(ir.rules[k]) # IsDropped(ir.rules[k])

\* a rule was excluded, a later one fitted exactly up to the limit
C7_Witness ==
    /\ InWindsurf
    /\ loc.i = 4
    /\ IsWritten(ir.rules[1])
    /\ IsDropped(ir.rules[2])
    /\ IsWritten(ir.rules[3])
    /\ loc.totalChars = 12000

\* C8: no rule is dropped while a rule of strictly lower priority is written.
C8_NoLowerPriorityWritten ==
    InWindsurf =>
        \A d \in Processed : \A w \in Processed :
            IsDropped(ir.rules[d]) /\ IsWritten(ir.rules[w])
                => priorityOrder(ir.rules[w].priority) <= priorityOrder(ir.rules[d].priority)

\* C9, as stated: any rule whose block alone is longer than 6000 characters is
\* still written, with a per-item warning.
C9_OversizedAlwaysWritten ==
    InWindsurf =>
        \A k \in Processed :
            BlockLength(ir.rules[k]) > 6000
                => IsWritten(ir.rules[k]) /\ HasPerFileWarning(ir.rules[k])

\* C9, amended: a rule gets the per-item warning exactly when its block alone
\* is longer than 6000 characters, and the per-item limit never excludes it:
\* such a rule is written unless the running total plus its block is greater
\* than 12000, in which case it is dropped like any other rule.
C9_OversizedWrittenIfTotalAllows ==
    InWindsurf =>
        \A k \in Processed :
            /\ HasPerFileWarning(ir.rules[k]) <=> BlockLength(ir.rules[k]) > 6000
            /\ BlockLength(ir.rules[k]) > 6000 =>
                  (IsWritten(ir.rules[k]) <=>
                      StatedAllocation(ir.rules, k - 1).total + BlockLength(ir.rules[k])
                          <= 12000)

\* an oversized rule that was written, followed by an oversized rule that was dropped
C9_Witness ==
    /\ InWindsurf
    /\ loc.i >= 3
    /\ BlockLength(ir.rules[1]) > 6000 /\ HasPerFileWarning(ir.rules[1])
    /\ IsWritten(ir.rules[1])
    /\ BlockLength(ir.rules[2]) > 6000 /\ HasPerFileWarning(ir.rules[2])
    /\ IsDropped(ir.rules[2])

WindsurfReturned == last.target = "windsurf"

ConventionsFileAt(files, n) == files[n].path = WindsurfConventionsPath

-----------------------------------------------------------------------------
(* Claims about what the adapters return *)

Returned == Built /\ last.target \in Adapters

\* some file of the result has the name in its path or in its content
Named(result, name) ==
    \E n \in DOMAIN result.files :
        Includes(result.files[n].path, name) \/ Includes(result.files[n].content, name)

\* nativeFeatures or degradedFeatures holds one of the tags
Tagged(result, tags) ==
    \/ \E n \in DOMAIN result.nativeFeatures : result.nativeFeatures[n] \in tags
    \/ \E n \in DOMAIN result.degradedFeatures : result.degradedFeatures[n] \in tags

\* the feature strings that name a category
RuleTags ==
    { "instructions", "scoped-rules", "description-triggered-rules",
      "description-triggered rules (converted to always-on rules)",
      "manual rules (converted to always-on rules)",
      "description-triggered rules (folded into instructions)",
      "scoped-rules (folded into instructions with file-match prefix)",
      "scoped-rules (folded into instructions with file-path annotations)",
      "scoped-rules (folded into instructions with file-match annotations)" }

HookTags ==
    { "hooks", "hooks (folded into behavioral instructions rule)",
      "hooks (folded into behavioral instructions)" }

CommandTags == { "commands" }

SkillTags ==
    { "skills", "skills (folded into conventions file)",
      "skills (folded into skills section)" }

AgentTags == { "agents" }

\* what identifies a hook, which has no name: the text of its command
HookText(hook) == Head(hook.run)

OnFixture == Returned /\ source = FixtureSource

HookAdapters ==
    { "claude", "cursor", "codex", "generic-markdown", "aider", "junie", "amazonq",
      "amp", "roo" }

CommandAdapters == { "claude", "cursor" }

AgentAdapters == { "claude", "cursor" }

TracedBy(supporting, r, name, tags) ==
    IF last.target \in supporting
    THEN Named(r, name) /\ Tagged(r, tags)
    ELSE ~Named(r, name) /\ ~Tagged(r, tags)

IsDropWarningFor(w, rule) ==
    w.kind = "Dropping rule" /\ w.rule = rule.name /\ w.priority = rule.priority

\* C2, as stated: whatever the adapter and the IR, every rule's name is in the
\* path or the content of some file of the result.
C2_EveryRuleNamed ==
    Returned => \A i \in DOMAIN ir.rules : Named(last.result, ir.rules[i].name)

\* C2, amended: every adapter but windsurf has every rule's name in the path
\* or the content of some file; windsurf has the name of every rule it did
\* not drop for the total limit, and for each rule it dropped a warning
\* naming the rule and its priority.
C2_EveryRuleNamedOrDropped ==
    Returned =>
        \A i \in DOMAIN ir.rules :
            LET dropped == \E n \in DOMAIN last.result.warnings :
                               IsDropWarningFor(last.result.warnings[n], ir.rules[i])
            IN  /\ Named(last.result, ir.rules[i].name) # dropped
                /\ dropped => last.target = "windsurf"

\* windsurf wrote one rule and dropped the other, which is too long
C2_Witness ==
    /\ Returned
    /\ last.target = "windsurf"
    /\ Len(ir.rules) = 2
    /\ Named(last.result, ir.rules[1].name)
    /\ ~Named(last.result, ir.rules[2].name)
    /\ \E n \in DOMAIN last.result.warnings :
           IsDropWarningFor(last.result.warnings[n], ir.rules[2])

-----------------------------------------------------------------------------
(* Claims about the hook compiler *)

ContainsSeq(t, sub) ==
    \E k \in 0..(Len(t) - Len(sub)) : SubSeq(t, k + 1, k + Len(sub)) = sub

\* the text of a command inside its JSON string, without the enclosing quotes
JsonPieces(tokens) == SubSeq(JsonString(tokens), 2, Len(JsonString(tokens)) - 1)

ClaudeReturned == Returned /\ last.target = "claude"

\* .claude/settings.json of the returned result holds the pieces
InSettings(pieces) ==
    \E n \in DOMAIN last.result.files :
        /\ last.result.files[n].path = Lit(".claude/settings.json")
        /\ ContainsSeq(last.result.files[n].content, pieces)

\* the hook has a non-empty match glob
NonEmptyMatch(hook) == hook.match.has /\ hook.match.v # << >>

\* first "}" of cs that closes a non-empty group opened by cs[1], 0 if none
GroupEnd(cs) ==
    IF \E j \in 2..Len(cs) : cs[j] = "}"
    THEN LET j == CHOOSE j \in 2..Len(cs) :
                      cs[j] = "}" /\ \A k \in 2..(j - 1) : cs[k] # "}"
         IN  IF j > 2 THEN j ELSE 0
    ELSE 0

\* the translation as stated, read off the glob from left to right
RECURSIVE StatedRegex(_)
StatedRegex(cs) ==
    IF cs = << >> THEN << >>
    ELSE LET c == Head(cs)
             rest == Tail(cs)
         IN  CASE c = "." -> << "\\", "." >> \o StatedRegex(rest)
               [] c = "{" /\ GroupEnd(cs) > 0 ->
                      << "(" >>
                          \o StatedRegex([i \in 1..(GroupEnd(cs) - 2) |->
                                             IF cs[i + 1] = "," THEN "|" ELSE cs[i + 1]])
                          \o << ")" >>
                          \o StatedRegex(SubSeq(cs, GroupEnd(cs) + 1, Len(cs)))
               [] c = "*" /\ rest # << >> /\ Head(rest) = "*" ->
                      << ".", "*" >> \o StatedRegex(Tail(rest))
               [] c = "*" -> << "[", "^", "/", "]", "*" >> \o StatedRegex(rest)
               [] c = "?" -> << "." >> \o StatedRegex(rest)
               [] OTHER -> << c >> \o StatedRegex(rest)

\* C11: the guard of every hook with a match glob tests the regular expression
\* that escapes every literal dot, turns {a,b,c} into (a|b|c), every ** into
\* .*, every other * into [^/]* and every ? into .
C11_GlobTranslated ==
    ClaudeReturned =>
        \A i \in DOMAIN ir.hooks :
            NonEmptyMatch(ir.hooks[i]) =>
                InSettings(JsonPieces(<< " | grep -qE ", "\"" >>
                                          \o StatedRegex(ir.hooks[i].match.v)
                                          \o << "\"", " && " >>))

\* the translations differ only where a * follows a literal dot
DotStar(cs) ==
    \E i \in 1..(Len(cs) - 1) : cs[i] = "." /\ cs[i + 1] = "*"

C11_OnlyAfterDot ==
    ClaudeReturned =>
        \A i \in DOMAIN ir.hooks :
            NonEmptyMatch(ir.hooks[i]) =>
                \/ globToRegex(ir.hooks[i].match.v) = StatedRegex(ir.hooks[i].match.v)
                \/ DotStar(ir.hooks[i].match.v)

\* the settings entry of the hook carries exactly this command
CommandInSettings(cmd) ==
    InSettings(SubSeq(SettingsEntry([matcher |-> "", command |-> cmd]), 5,
                      Len(SettingsEntry([matcher |-> "", command |-> cmd])) - 1))

GuardHead == << "echo ", "\"", "$1", "\"", " | grep -qE ", "\"" >>

StartsAt(seq, k, sub) ==
    /\ k >= 1
    /\ k + Len(sub) - 1 <= Len(seq)
    /\ SubSeq(seq, k, k + Len(sub) - 1) = sub

\* sh -c runs echo "$1" | grep -qE "<regex>" && <command>, for some
\* non-empty <regex>
HasGuard(cmd, command) ==
    \E m \in 1..Len(cmd) :
        /\ StartsAt(cmd, 2, GuardHead)
        /\ m > 1 + Len(GuardHead) + 1
        /\ StartsAt(cmd, m, << "\"", " && " >> \o command)
        /\ m + 1 + Len(command) = Len(cmd) - 1

HasPlaceholder(hook) == \E i \in DOMAIN hook.run : hook.run[i] = "{file}"

\* the hook's command with the placeholder replaced throughout
StatedSubstituted(run) ==
    [i \in DOMAIN run |-> IF run[i] = "{file}" THEN "$1" ELSE run[i]]

\* C12: the command compiled for a hook holds the guard
\* echo "$1" | grep -qE "<regex>" && <command> exactly when the hook has a
\* non-empty match glob; the guarded command is the substituted one when the
\* hook's command holds {file} and the unsubstituted one when it does not
C12_GuardIffMatchGlob ==
    ClaudeReturned =>
        \A i \in DOMAIN ir.hooks :
            LET hook == ir.hooks[i]
                cmd == buildHookCommand(hook)
                command == ResolveRun(hook.run)
            IN  /\ CommandInSettings(cmd)
                /\ NonEmptyMatch(hook) /\ HasPlaceholder(hook)
                       => HasGuard(cmd, StatedSubstituted(command))
                /\ NonEmptyMatch(hook) /\ ~HasPlaceholder(hook)
                       => HasGuard(cmd, command)
                /\ ~NonEmptyMatch(hook)
                       => /\ ~ContainsSeq(cmd, << " | grep -qE " >>)
                          /\ ~ContainsSeq(cmd, << " && " >>)
                /\ ~NonEmptyMatch(hook) /\ ~HasPlaceholder(hook) => cmd = command

\* a defined but empty match glob has been compiled without a guard
C12_UnguardedReached ==
    /\ ClaudeReturned
    /\ Len(ir.hooks) = 1
    /\ ir.hooks[1].match = Some(<< >>)
    /\ HasPlaceholder(ir.hooks[1])
    /\ CommandInSettings(buildHookCommand(ir.hooks[1]))

\* a command without {file} has been compiled behind a guard
C12_Witness ==
    /\ ClaudeReturned
    /\ \E i \in DOMAIN ir.hooks :
           /\ NonEmptyMatch(ir.hooks[i])
           /\ ~HasPlaceholder(ir.hooks[i])
           /\ HasGuard(buildHookCommand(ir.hooks[i]), ResolveRun(ir.hooks[i].run))

Count(seq, x) == Cardinality({i \in DOMAIN seq : seq[i] = x})

\* C13: in the command compiled for a hook every {file} is replaced by $1,
\* no {file} remains, and the path reaches the command only as the argument
\* the jq pipeline passes to sh -c
C13_FileIsPositional ==
    ClaudeReturned =>
        \A i \in DOMAIN ir.hooks :
            LET hook == ir.hooks[i]
                cmd == buildHookCommand(hook)
            IN  /\ CommandInSettings(cmd)
                /\ Count(cmd, "{file}") = 0
                /\ Count(cmd, "$1") = Count(hook.run, "{file}")
                                         + (IF NonEmptyMatch(hook) THEN 1 ELSE 0)
                /\ HasPlaceholder(hook) =>
                       /\ ContainsSeq(cmd, StatedSubstituted(ResolveRun(hook.run))
                                               \o << "' _ {}" >>)
                       /\ Head(cmd) = "jq -r '.tool_input.file_path' | xargs -I {} sh -c '"
                /\ \A n \in DOMAIN last.result.files :
                       ~Includes(last.result.files[n].content, "{file}")

\* a command with two placeholders has been compiled
C13_Witness ==
    /\ ClaudeReturned
    /\ \E i \in DOMAIN ir.hooks :
           /\ Count(ir.hooks[i].run, "{file}") = 2
           /\ Count(buildHookCommand(ir.hooks[i]), "$1") >= 2

\* the table of the adapter guide
StatedTrigger(event) ==
    CASE event = "post-edit" -> [key |-> "PostToolUse", matcher |-> "Edit|Write|MultiEdit"]
      [] event = "post-create" -> [key |-> "PostToolUse", matcher |-> "Write"]
      [] event = "pre-commit" -> [key |-> "Notification", matcher |-> "Stop"]

TriggerKeys == {StatedTrigger(e).key : e \in HookEvents}

\* the line that opens the array of a trigger key in settings.json
KeyHeader(key) == Lit("    ") \o JsonString(<< key >>) \o Lit(": [\n")

SettingsText ==
    LET n == CHOOSE n \in DOMAIN last.result.files :
                 last.result.files[n].path = Lit(".claude/settings.json")
    IN  last.result.files[n].content

\* position k of the text lies in the array of the key
Under(text, k, key) ==
    \E j \in 1..(k - 1) :
        /\ StartsAt(text, j, KeyHeader(key))
        /\ \A j2 \in (j + 1)..(k - 1), other \in TriggerKeys :
               ~StartsAt(text, j2, KeyHeader(other))

EntryCount(text) ==
    Cardinality({k \in DOMAIN text : StartsAt(text, k, Lit("      {\n        \"matcher\": "))})

\* C14: each of the three events maps to its fixed trigger key and matcher, and
\* settings.json holds one entry per IR hook, under the trigger key of the
\* hook's event and with the matcher of that event
C14_PlacedUnderTrigger ==
    /\ \A e \in HookEvents :
           /\ mapHookEvent(e).event = StatedTrigger(e).key
           /\ mapHookEvent(e).matcher = StatedTrigger(e).matcher
    /\ ClaudeReturned /\ Len(ir.hooks) > 0 =>
           /\ EntryCount(SettingsText) = Len(ir.hooks)
           /\ \A key \in TriggerKeys :
                  Cardinality({k \in DOMAIN SettingsText :
                                   StartsAt(SettingsText, k, KeyHeader(key))}) <= 1
           /\ \A i \in DOMAIN ir.hooks :
                  \E k \in DOMAIN SettingsText :
                      /\ StartsAt(SettingsText, k,
                                  SettingsEntry([ matcher |-> StatedTrigger(ir.hooks[i].event).matcher,
                                                  command |-> buildHookCommand(ir.hooks[i]) ]))
                      /\ Under(SettingsText, k, StatedTrigger(ir.hooks[i].event).key)

\* a post-create hook has been placed under the key a pre-commit hook opened
\* before it
C14_Witness ==
    /\ ClaudeReturned
    /\ Len(ir.hooks) = 2
    /\ ir.hooks[1].event = "pre-commit"
    /\ ir.hooks[2].event = "post-create"
    /\ EntryCount(SettingsText) = 2
    /\ \E k \in DOMAIN SettingsText : Under(SettingsText, k, "PostToolUse")

-----------------------------------------------------------------------------
(* Claims about the output writer *)

Writing == pc = "writing" /\ writer.i >= 1

CurrentPath == writer.files[writer.i].path

\* the step replaces the content of the file the writer is at
Rewrites ==
    /\ Writing
    /\ CurrentPath \in DOMAIN disk
    /\ disk'[CurrentPath] # disk[CurrentPath]

BackedUp(path, file) ==
    /\ \E b \in backups : b.path = path /\ b.file = file
    /\ \E k \in DOMAIN writer.warnings : writer.warnings[k].path = path
    /\ \E k \in DOMAIN writer.backed_up : writer.backed_up[k] = path

\* C15: whenever the writer replaces the content of an existing file that
\* lacks the generated marker, or whose checksum differs from the one in the
\* manifest, a backup of the content it replaces has been made before and a
\* warning has been recorded
C15_BackupBeforeOverwrite ==
    [][ Rewrites /\ (~disk[CurrentPath].marked \/ Mismatch(CurrentPath))
            => BackedUp(CurrentPath, disk[CurrentPath]) ]_vars

\* a hand-written file and an edited generated file have both been
\* overwritten after their backups
C15_Witness ==
    /\ writer.state \in Terminal
    /\ \E b1 \in backups, b2 \in backups :
           /\ ~b1.file.marked /\ b1.file.text = Lit("written by hand")
           /\ b2.file.marked /\ b2.file.text = HandEdited
           /\ disk[b1.path] = Generated(disk[b1.path].text)
           /\ b2.path \in DOMAIN disk /\ disk[b2.path].text # HandEdited

\* C16: a merge-write keeps every key that somebody else added, with its
\* value, and leaves the marker as it was: only the produced keys change
C16_MergeKeepsForeignKeys ==
    [][ Writing /\ writer.state = "merging"
            => /\ disk'[CurrentPath].foreign = disk[CurrentPath].foreign
               /\ disk'[CurrentPath].marked = disk[CurrentPath].marked
               /\ \A p \in DOMAIN disk \ {CurrentPath} : disk'[p] = disk[p] ]_vars

\* the hooks have been merged into settings that hold two keys of the user
C16_Witness ==
    /\ writer.state \in Terminal
    /\ SettingsPath \in DOMAIN disk
    /\ \E k \in DOMAIN writer.written : writer.written[k] = SettingsPath
    /\ disk[SettingsPath].foreign = {UserKey, [ key |-> "model", value |-> "opus" ]}
    /\ disk[SettingsPath].text = SettingsContent(ir.hooks)

\* what the writer puts at the path for the content
WouldWrite(path, content) ==
    IF Structured(path) /\ ~disk[path].marked
    THEN Merged(disk[path], content) ELSE Generated(content)

\* the file the writer is at is as an earlier build wrote it, and the content
\* written now is the content written then
Identical ==
    /\ Writing
    /\ CurrentPath \in DOMAIN disk
    /\ IsTracked(manifest, CurrentPath)
    /\ ~Mismatch(CurrentPath)
    /\ disk[CurrentPath] = WouldWrite(CurrentPath, writer.files[writer.i].content)

\* C17: writing a file again with the content it was last written with leaves
\* the manifest and its checksums as they are and makes no backup
C17_SecondWriteIdempotent ==
    [][ Identical => /\ manifest' = manifest
                     /\ backups' = backups
                     /\ disk' = disk
                     /\ writer'.backed_up = writer.backed_up ]_vars

\* a second build has written the three files of the first again
C17_Witness ==
    /\ writer.run = 2
    /\ writer.state = "manifest-committed"
    /\ Len(writer.written) = 3
    /\ Len(manifest.files) = 3
    /\ backups = {}

CleanStep == pc = "load" /\ manifest.exists /\ ~manifest'.exists

TrackedFilesRemoved ==
    /\ \A p \in DOMAIN disk : IsTracked(manifest, p) => p \notin DOMAIN disk'
    /\ \A p \in DOMAIN disk :
           ~IsTracked(manifest, p) => p \in DOMAIN disk' /\ disk'[p] = disk[p]
    /\ DOMAIN disk' \subseteq DOMAIN disk
    /\ backups' = backups

\* C18 as stated: cleanup deletes every tracked file and the manifest, and
\* deletes or changes no other file
C18_OnlyTrackedTouched ==
    [][ CleanStep => TrackedFilesRemoved /\ gitignore' = gitignore ]_vars

\* C18: cleanup deletes every tracked file and the manifest, and deletes or
\* changes no other file but .gitignore, whose managed block it removes
C18_OnlyTrackedAndGitignoreTouched ==
    [][ CleanStep => TrackedFilesRemoved /\ gitignore' = NoBlock ]_vars

\* after a build and a cleanup the hand-written sibling is all that is left
C18_Witness ==
    /\ pc = "load"
    /\ writer.run = 1
    /\ ~manifest.exists
    /\ gitignore = NoBlock
    /\ DOMAIN disk = {Lit(".claude/rules/team-notes.md")}

FailedPath(path) == \E k \in DOMAIN writer.errors : writer.errors[k].path = path

WrittenPath(path) == \E k \in DOMAIN writer.written : writer.written[k] = path

TargetFiles(a) == {first[a].result.files[k] : k \in DOMAIN first[a].result.files}

OnDisk(f) == f.path \in DOMAIN disk /\ disk[f.path].text = f.content

Persisting == {"merging", "overwriting", "backing-up"}

\* one step along idle -> resolving-ownership -> persisting -> terminal; the
\* next invocation starts from idle
Along(s, t) ==
    \/ s = "idle" /\ t = "resolving-ownership"
    \/ s = "resolving-ownership" /\ t \in Persisting
    \/ s \in Persisting /\ t \in Persisting \cup Terminal
    \/ s \in Terminal /\ t = "idle" /\ pc' = "load"

AllWritten == \A k \in DOMAIN writer.files : WrittenPath(writer.files[k].path)

-----------------------------------------------------------------------------
(* Claims about re-sorting and about the running total *)

\* C28: sortByPriority is idempotent: for every rule list L,
\* sortByPriority(sortByPriority(L)) equals sortByPriority(L) element for
\* element. (ir.rules is sortByPriority of the loaded rule list.)
C28_SortIdempotent ==
    Built =>
        /\ Len(sortByPriority(ir.rules)) = Len(ir.rules)
        /\ \A i \in DOMAIN ir.rules : sortByPriority(ir.rules)[i] = ir.rules[i]

\* a list that the sort had to reorder and that holds two rules of equal
\* priority (normal, critical, normal) was sorted, and sorting the result
\* again gives the result
C28_Witness ==
    /\ Built
    /\ Len(source.rules) = 3
    /\ source.rules[1].fm.priority = Some("normal")
    /\ source.rules[2].fm.priority = Some("critical")
    /\ source.rules[3].fm.priority = Some("normal")
    /\ ir.rules[1].name = RuleName(2)
    /\ ir.rules[2].name = RuleName(1)
    /\ ir.rules[3].name = RuleName(3)
    /\ sortByPriority(ir.rules) = ir.rules

RECURSIVE SumLengths(_)
SumLengths(files) ==
    IF files = << >> THEN 0 ELSE TextLen(Head(files).content) + SumLengths(Tail(files))

\* the files of a result without the trailing aggregate block
RuleFiles(files) ==
    LET IsRuleFile(f) == f.path # WindsurfConventionsPath
    IN  SelectSeq(files, IsRuleFile)

\* C29: at every step of the budget allocation and in the final result, the
\* sum of the lengths of the rule files written so far (the trailing
\* aggregate block excluded) equals the running total and never exceeds
\* 12,000 characters.
C29_TotalWithinBudget ==
    /\ InWindsurf =>
           /\ SumLengths(loc.files) = loc.totalChars
           /\ loc.totalChars <= 12000
    /\ (last.target = "windsurf") =>
           /\ SumLengths(RuleFiles(last.result.files)) <= 12000
           /\ ~InWindsurf => SumLengths(RuleFiles(last.result.files)) = loc.totalChars

\* the result was returned with two rule files that fill the budget to the
\* last character, one rule dropped, and the conventions file on top
C29_Witness ==
    /\ ~InWindsurf
    /\ last.target = "windsurf"
    /\ Len(ir.rules) = 3
    /\ Len(last.result.files) = 3
    /\ Len(RuleFiles(last.result.files)) = 2
    /\ SumLengths(RuleFiles(last.result.files)) = 12000
    /\ SumLengths(last.result.files) > 12000

-----------------------------------------------------------------------------
(* Claims about .gitignore *)

\* the lines of a text: what lies between its newlines
RECURSIVE Lines(_)
Lines(t) ==
    IF t = << >> THEN << "" >>
    ELSE LET rest == Lines(Tail(t))
         IN  IF Head(t).s = "\n" THEN << "" >> \o rest
             ELSE << Head(t).s \o Head(rest) >> \o Tail(rest)

Occurrences(content, marker) == Cardinality({i \in DOMAIN content : content[i].s = marker})

\* the lines between the opening and the closing marker line
BlockLines(content) ==
    LET all == Lines(content)
        from == CHOOSE i \in DOMAIN all : all[i] = BLOCK_START
        to == CHOOSE i \in DOMAIN all : all[i] = BLOCK_END
    IN  SubSeq(all, from + 1, to - 1)

EntryStrings(entries) == [k \in DOMAIN entries |-> TextString(entries[k])]

SameEntries(lines, entries) ==
    /\ Len(lines) = Len(entries)
    /\ \A k \in DOMAIN entries : Count(lines, entries[k]) = Count(entries, entries[k])

\* a call of updateGitignore with entries was the last thing done to .gitignore
Updated == writer.written # << >>

\* C27: after any sequence of updateGitignore calls with non-empty entry
\* lists, .gitignore contains exactly one managed block (one opening marker
\* line followed by one closing marker line), and that block holds exactly
\* the entries of the latest call.
C27_OneBlockLatestEntries ==
    (pc = "load" /\ Updated) =>
        /\ Occurrences(gitignore, BLOCK_START) = 1
        /\ Occurrences(gitignore, BLOCK_END) = 1
        /\ Count(Lines(gitignore), BLOCK_START) = 1
        /\ Count(Lines(gitignore), BLOCK_END) = 1
        /\ IndexOf(gitignore, BLOCK_START) < IndexOf(gitignore, BLOCK_END)
        /\ SameEntries(BlockLines(gitignore), EntryStrings(writer.written))

\* the block of an earlier build, with lines of the user above and below it,
\* was replaced by the two entries of the latest call, given out of order
C27_Witness ==
    /\ pc = "load"
    /\ writer.written = << Lit("GEMINI.md"), Lit("AGENTS.md") >>
    /\ Lines(gitignore) =
           << "node_modules/", "", BLOCK_START, "AGENTS.md", "GEMINI.md", BLOCK_END,
              "dist/", "" >>

-----------------------------------------------------------------------------
(* Claims about hooks in the feature lists *)

\* a feature string that mentions hooks
MentionsHooks(feature) == feature \in HookTags

\* C25: when the IR contains at least one hook, the claude adapter names
\* hooks in nativeFeatures and every other registered adapter omits hooks
\* entirely: no entry of its degradedFeatures mentions hooks.
C25_OnlyClaudeNamesHooks ==
    (Returned /\ Len(ir.hooks) > 0) =>
        LET r == last.result
        IN  IF last.target = "claude"
            THEN \E n \in DOMAIN r.nativeFeatures : MentionsHooks(r.nativeFeatures[n])
            ELSE \A n \in DOMAIN r.degradedFeatures : ~MentionsHooks(r.degradedFeatures[n])

\* C25, the part the adapters keep: claude names hooks in nativeFeatures, and
\* windsurf, cline, gemini and copilot have no hooks entry
C25_ClaudeNativeOthersVary ==
    (Returned /\ Len(ir.hooks) > 0) =>
        LET r == last.result
            degraded == \E n \in DOMAIN r.degradedFeatures : MentionsHooks(r.degradedFeatures[n])
        IN  /\ last.target = "claude" =>
                \E n \in DOMAIN r.nativeFeatures : MentionsHooks(r.nativeFeatures[n])
            /\ degraded <=> last.target \in HookAdapters \ {"claude"}

-----------------------------------------------------------------------------
(* Claims about the target loop of the build *)

Registered == { RegisteredNames[k] : k \in DOMAIN RegisteredNames }

\* the report of a target that is no registered name
UnknownReports == { k \in DOMAIN reported : reported[k].target \notin Registered }

\* a not-found error for the name, whose message holds every registered name
IsNotFound(message, name) ==
    /\ Len(message) >= 2
    /\ message[1] = "Unknown adapter \""
    /\ message[2] = name
    /\ \A n \in Registered : \E k \in DOMAIN message : message[k] = n

\* C24: getAdapter(name) returns the adapter registered under name when name
\* is a registered identifier, and for every other name raises a not-found
\* error whose message enumerates every registered adapter name.
C24_GetAdapter ==
    /\ \A a \in Called :
           /\ a \in Registered
           /\ getAdapter(a) = [ threw |-> FALSE, message |-> << >>, value |-> adapters[a] ]
           /\ adapters[a].name = a
    /\ \A k \in UnknownReports :
           /\ getAdapter(reported[k].target).threw
           /\ IsNotFound(reported[k].message, reported[k].target)

\* C24, for the names that are neither registered nor inherited from
\* Object.prototype: the error is the not-found error with every name in it
C24_NotFoundUnlessInherited ==
    /\ \A a \in Called :
           /\ a \in Registered
           /\ getAdapter(a) = [ threw |-> FALSE, message |-> << >>, value |-> adapters[a] ]
           /\ adapters[a].name = a
    /\ \A k \in UnknownReports :
           reported[k].target \notin ObjectPrototypeKeys =>
               /\ getAdapter(reported[k].target).threw
               /\ IsNotFound(reported[k].message, reported[k].target)

\* C22: an unknown target name in the requested target list is fatal to the
\* whole run: the error is surfaced, the name is never silently skipped or
\* defaulted, and no target's files are written.
C22_UnknownTargetFatal ==
    UnknownReports # {} =>
        /\ writer.written = << >>
        /\ \A k \in UnknownReports :
               /\ reported[k].message # << >>
               /\ reported[k].target \notin Called

\* C22, what the loop keeps: the unknown name is reported with the error of
\* its lookup and nothing is generated under it
C22_UnknownTargetReported ==
    \A k \in UnknownReports :
        /\ reported[k].message # << >>
        /\ reported[k].target \notin Called

\* the reports of registered targets: generate threw
GenerateReports == { k \in DOMAIN reported : reported[k].target \in Registered }

\* the files of the targets that returned, in the order of the loop
ReturnedFiles ==
    Concat([k \in DOMAIN CallOrder({}) |-> first[CallOrder({})[k]].result.files])

\* C23: an exception raised inside one adapter's generate is isolated to that
\* target: it is reported for that target, the loop goes on to the other
\* requested targets, and their files are still handed to the writer.
C23_GenerateExceptionIsolated ==
    [][ /\ (pc = "loop" /\ reported' # reported) =>
            /\ pc' = "loop"
            /\ first' = first /\ last' = last
            /\ \E target \in Registered \cup UnregisteredNames :
                   /\ Len(reported') = Len(reported) + 1
                   /\ reported'[Len(reported')].target = target
                   /\ reported'[Len(reported')].message # << >>
                   /\ SubSeq(reported', 1, Len(reported)) = reported
        /\ (pc = "generated" /\ pc' = "writing") =>
            /\ writer'.files = ReturnedFiles
            /\ \A a \in Called : \A k \in DOMAIN first[a].result.files :
                   \E j \in DOMAIN writer'.files : writer'.files[j] = first[a].result.files[k]
      ]_vars

\* generate threw for codex before any other target was tried; claude and amp
\* were generated after it and the writer was given the files of both
C23_Witness ==
    /\ GenerateReports # {}
    /\ reported[1].target = "codex"
    /\ reported[1].after = {}
    /\ Called = { "claude", "amp" }
    /\ pc = "writing"
    /\ writer.files = ReturnedFiles
    /\ Len(writer.files) > 0

-----------------------------------------------------------------------------
(* Claims about writes to one path *)

\* the files the writer has dealt with: written, or failed
DealtWith == Len(writer.written) + Len(writer.errors)

\* the indices of the files that go to the path
IndicesOf(path) == { k \in DOMAIN writer.files : writer.files[k].path = path }

\* the targets of the build whose result holds a file for the path
Producers(path) ==
    { a \in Called : \E k \in DOMAIN first[a].result.files :
                         first[a].result.files[k].path = path }

\* the paths that more than one target of the build produces
SharedPaths ==
    { p \in UNION { { first[a].result.files[k].path : k \in DOMAIN first[a].result.files } :
                     a \in Called } : Cardinality(Producers(p)) > 1 }

Failed(path) == \E k \in DOMAIN writer.errors : writer.errors[k].path = path

Max(S) == CHOOSE x \in S : \A y \in S : y <= x

-----------------------------------------------------------------------------
(* Claims about the dry run *)

\* a step of a build with dryRun set: the load, a step of the target loop,
\* its end, or the listing of the paths that ends the command
DryRunBuildStep ==
    \/ pc = "load" /\ pc' = "loop"
    \/ pc = "loop"
    \/ pc = "generated" /\ pc' = "done"

\* C26: a build run with dry-run enabled changes nothing on disk: no adapter
\* output file is written, no manifest is created or rewritten, and
\* .gitignore is not touched.
C26_DryRunChangesNothing ==
    [][ DryRunBuildStep =>
            /\ disk' = disk
            /\ manifest' = manifest
            /\ gitignore' = gitignore
            /\ backups' = backups
            /\ pc' = "done" => writer' = writer /\ writer.state = "idle" ]_vars

\* a dry run has ended that generated for claude in a project built before:
\* the writer was not called, and the files, the manifest and the block of
\* the earlier build are there as before, the rule file edited by hand since
C26_Witness ==
    /\ pc = "done"
    /\ writer.state = "idle"
    /\ writer.run = 1
    /\ "claude" \in Called
    /\ manifest.exists
    /\ Includes(gitignore, BLOCK_START)
    /\ RulePath \in DOMAIN disk
    /\ disk[RulePath].text = HandEdited

-----------------------------------------------------------------------------
(* Claims about the manifest after a partial failure *)

\* the files a build has persisted
WrittenPaths == { writer.written[k] : k \in DOMAIN writer.written }

\* C30: when a build ends in partial-failure, every file persisted on disk by
\* that build is tracked in the manifest, so a later cleanup removes it and
\* no generated file is left untracked.
C30_PartialFailureTracked ==
    writer.state = "partial-failure" =>
        /\ \A p \in WrittenPaths :
               /\ p \in DOMAIN disk
               /\ IsTracked(manifest, p)
               /\ RecordedChecksum(manifest, p) = Checksum(disk[p])
               /\ p \notin DOMAIN cleanGeneratedFiles
        /\ \A p \in DOMAIN disk : disk[p].marked => IsTracked(manifest, p)
        /\ \A p \in DOMAIN cleanGeneratedFiles : ~cleanGeneratedFiles[p].marked

\* a build of claude and codex in which one write failed and others went
\* through: what was written is on disk and in the manifest
C30_Witness ==
    /\ writer.state = "partial-failure"
    /\ Called = { "claude", "codex" }
    /\ Len(writer.errors) = 1
    /\ Len(writer.written) >= 2
    /\ manifest.exists
    /\ Len(manifest.files) >= 2
    /\ \E p \in DOMAIN disk : disk[p].marked

====
